---- MODULE Spec2Model ----
(***************************************************************************)
(* ServerManager (qcodes/utils/multiprocessing.py): a controller that      *)
(* exchanges queries with one server process over three queues.            *)
(*                                                                         *)
(* Each caller of ask()/write() is a process with a program counter; every *)
(* queue operation of the source (put, get, empty) is one atomic step, so  *)
(* that the interleavings of several callers and of the server are those   *)
(* the code allows.  The server itself is supplied by the user of          *)
(* ServerManager; it is modelled from its contract: it reads requests in a *)
(* loop and produces one response, or the error sentinel plus an error     *)
(* record, per request.                                                    *)
(*                                                                         *)
(* halt(), restart() and close() are calls of the same callers; the server *)
(* processes a manager has started are numbered in the order of their      *)
(* start.  StreamQueue and _SQWriter are modelled as one process that      *)
(* connects to the queue has them: its saved streams, its sys.stdout and   *)
(* sys.stderr, and the queue its writers feed.                             *)
(***************************************************************************)
EXTENDS Integers, Sequences, FiniteSets, TLC

\* ---------------------------------------------------------------- bounds
\* total number of ask()/write() calls issued in one behaviour
MaxCalls == 3
\* extra responses an over-producing server may put for one query
MaxExtra == 1
\* how long the clock of the timed specification runs while a caller waits
MaxWait == 3

\* ------------------------------------------------------ program constants
\* ServerManager.__init__(..., query_timeout=2)
query_timeout == 2

SERVER_ERR == "~~ERR~~"

Callers == {"c1", "c2"}
\* the process that constructs the manager, and so starts its server
Main == "c1"
\* the calls that stop or start the server
LifeOps == {"halt", "restart", "close"}
\* the reserved query that asks the server to stop
StopArg == "halt"
NoOwner == "none"

\* a response that has not been assigned (Python: res unbound / None)
NoRes == [tag |-> "none", val |-> 0, qid |-> 0, sn |-> 0]
NoQuery == [id |-> 0, arg |-> "none"]
\* no exception type: err_type = None
NoType == "None"
NoOutcome == [op |-> "none", id |-> 0, kind |-> "none", etype |-> NoType,
              val |-> NoRes, msg |-> <<>>]

VARIABLES
    query_queue,      \* self._query_queue
    response_queue,   \* self._response_queue
    error_queue,      \* self._error_queue
    query_lock,       \* owner of self.query_lock, or NoOwner
    pc,               \* position of each caller in ask()/write()
    op,               \* the call each caller is in: "ask" or "write"
    qry,              \* the query argument of the call
    timeout,          \* ask(): timeout = timeout or self.query_timeout
    res,              \* ask(): local res
    expect_error,     \* ask(): local expect_error
    outcome,          \* how the caller's last call ended
    ncalls,           \* calls issued so far (gives each query its id)
    wpc,              \* server: "wait" for a request, "serve" one, "crash", "done"
    wcur,             \* server: the request being served (or last served)
    wput,             \* server: what it has put for wcur: responses, sentinel, record
    rput,             \* number of puts on the response queue so far
    elapsed,          \* time a caller has been blocked in _response_queue.get()
    live,             \* the server processes (by order of start) that are alive
    nstarted,         \* number of server processes started so far
    _server,          \* self._server: the process started last
    closed,           \* close() has deleted the queues and the lock of the caller's manager
    notices,          \* number of "did not respond to halt signal" lines printed
    \* history variables, read by the properties only
    reads,            \* ask(): the responses read after the query was sent
    sawErr,           \* ask(): some response read during the call was SERVER_ERR
    mark,             \* rput when the caller last looked at the channels
    start_err,        \* the error queue when the call started
    start_done,       \* the server was not in the middle of reporting a failure then
    start_live,       \* the live server processes when halt/restart/close was called
    \* StreamQueue, as one process that writes to it has it
    initial_streams,  \* self.initial_streams: NoStreams or the saved (stdout, stderr)
    sys_stdout,       \* sys.stdout of the process
    sys_stderr,       \* sys.stderr of the process
    sq_queue,         \* self.queue: the (timestr, stream_name, msg) tuples not read yet
    last_read_ts,     \* self.last_read_ts
    now,              \* the clock
    terminal,         \* the lines _SQWriter has printed to sys.__stdout__
    \* StreamQueue, as the process that reads it has it
    _on_new_line,     \* self._on_new_line
    _last_stream,     \* self._last_stream: NoStream or a stream name
    gpc,              \* position of the reader in get()
    out,              \* get(): local out
    \* history variables, read by the properties only
    slog,             \* how each connect()/disconnect() so far ended
    before,           \* (sys.stdout, sys.stderr) just before each connect() that succeeded
    got,              \* the texts the get() calls so far have returned, one after the other
    written,          \* the message tuples put on the stream queue so far, in order
    wlog,             \* the calls of writers so far: write or flush, and how each ended
    \* the process: start method, StreamQueue singleton, QcodesProcess.run
    mp_method,        \* the start method of multiprocessing, or NoMethod
    mp_res,           \* how the last set_mp_method ended
    instance,         \* StreamQueue.instance: NoInstance or the number of the instance
    nmade,            \* number of StreamQueue objects made so far
    returned,         \* what the get_stream_queue() calls so far have returned
    rpc,              \* position of a QcodesProcess in run()
    name,             \* self.name of that QcodesProcess
    queue_streams,    \* the queue_streams it was made with
    stream_queue,     \* its self.stream_queue: an instance or NoInstance
    rlog,             \* what run() has done so far
    gone,             \* how the process that started the servers has ended, if it has
    reaped,           \* the server processes ended by the runtime when it ended
    _arm_head_status, \* Arm: "up", "down", or None for an arm that has not moved
    _current_row_num, \* Arm: the row the head is at, or None
    _end_pos,         \* Arm: whether the end position has been set
    apc,              \* Arm: position of the caller inside a method
    aop,              \* Arm: the method called
    aout,             \* Arm: how the last method ended
    sent,             \* Arm: commands given to the controller by the current call
    ancalls,          \* Arm: number of calls made
    enabled,          \* B1520A: the corrections the instrument has enabled
    kpc,              \* Correction: position of the caller inside a method
    kop,              \* Correction: the method called and its arguments
    kresp,            \* Correction: the response to the correction measurement
    klog,             \* Correction: messages given to the instrument by the current call
    kout,             \* Correction: how the last method ended
    kcalls            \* Correction: number of calls made

vars == <<query_queue, response_queue, error_queue, query_lock, pc, op, qry,
          timeout, res, expect_error, outcome, ncalls, wpc, wcur, wput, rput,
          elapsed, reads, sawErr, mark, start_err, start_done,
          live, nstarted, _server, closed, notices, start_live,
          initial_streams, sys_stdout, sys_stderr, sq_queue, last_read_ts, now,
          terminal, _on_new_line, _last_stream, gpc, out, slog, before, got,
          written, wlog, mp_method, mp_res, instance, nmade, returned, rpc,
          name, queue_streams, stream_queue, rlog, gone, reaped,
          _arm_head_status, _current_row_num, _end_pos, apc, aop, aout, sent,
          ancalls, enabled, kpc, kop, kresp, klog, kout, kcalls>>

chans == <<query_queue, response_queue, error_queue>>
worker == <<wpc, wcur, wput>>
locals == <<op, qry, timeout, res, expect_error>>
hist == <<reads, sawErr, mark, start_err, start_done>>
life == <<live, nstarted, _server, closed, notices, start_live>>
streams == <<initial_streams, sys_stdout, sys_stderr, sq_queue, last_read_ts,
             now, terminal, slog, before>>
reader == <<_on_new_line, _last_stream, gpc, out, got>>
wrote == <<written, wlog>>
context == <<mp_method, mp_res>>
singleton == <<instance, nmade, returned>>
qprocess == <<rpc, name, queue_streams, stream_queue, rlog>>
parent == <<gone, reaped>>
process == <<context, singleton, qprocess, parent>>
arm == <<_arm_head_status, _current_row_num, _end_pos, apc, aop, aout, sent, ancalls>>
correction == <<enabled, kpc, kop, kresp, klog, kout, kcalls>>
drivers == <<arm, correction>>
manager == <<chans, query_lock, pc, locals, outcome, ncalls, worker, rput,
             elapsed, hist, life>>

\* self.initial_streams = None
NoStreams == <<>>
\* self._last_stream = None
NoStream == <<>>
\* no start method has been set; StreamQueue.instance = None
NoMethod == "none"
NoInstance == 0
\* set_mp_method has not been called
NoCall == [n |-> 0, method |-> "none", force |-> FALSE, kind |-> "none"]
\* an output destination: a file object of the interpreter or of its host,
\* or a _SQWriter with its stream_name
File(n) == [kind |-> "file", name |-> <<n>>]
_SQWriter(stream_name) == [kind |-> "_SQWriter", name |-> stream_name]
\* sys.__stdout__ and sys.__stderr__
StdOut == File("__stdout__")
StdErr == File("__stderr__")

Last(s) == s[Len(s)]

InitManager ==
    /\ query_queue = <<>>
    /\ response_queue = <<>>
    /\ error_queue = <<>>
    /\ query_lock = NoOwner
    /\ pc = [c \in Callers |-> "idle"]
    /\ op = [c \in Callers |-> "none"]
    /\ qry = [c \in Callers |-> NoQuery]
    /\ timeout = [c \in Callers |-> query_timeout]
    /\ res = [c \in Callers |-> NoRes]
    /\ expect_error = [c \in Callers |-> FALSE]
    /\ outcome = [c \in Callers |-> NoOutcome]
    /\ ncalls = 0
    /\ wpc = "wait"
    /\ wcur = NoQuery
    /\ wput = [resp |-> 0, sentinel |-> FALSE, record |-> FALSE]
    /\ rput = 0
    /\ elapsed = [c \in Callers |-> 0]
    /\ reads = [c \in Callers |-> <<>>]
    /\ sawErr = [c \in Callers |-> FALSE]
    /\ mark = [c \in Callers |-> 0]
    /\ start_err = [c \in Callers |-> <<>>]
    /\ start_done = [c \in Callers |-> TRUE]
    /\ live = {1}
    /\ nstarted = 1
    /\ _server = 1
    /\ closed = [c \in Callers |-> FALSE]
    /\ notices = 0
    /\ start_live = [c \in Callers |-> {}]

\* a process that has the StreamQueue and has not connected, with its
\* standard streams
InitStreams(o, e) ==
    /\ initial_streams = NoStreams
    /\ sys_stdout = o
    /\ sys_stderr = e
    /\ sq_queue = <<>>
    /\ last_read_ts = 0
    /\ now = 0
    /\ terminal = <<>>
    /\ slog = <<>>
    /\ before = <<>>
    /\ _on_new_line = TRUE
    /\ _last_stream = NoStream
    /\ gpc = "idle"
    /\ out = <<>>
    /\ got = <<>>
    /\ written = <<>>
    /\ wlog = <<>>

\* a process that has used neither multiprocessing nor the stream queue
InitProcess ==
    /\ mp_method = NoMethod
    /\ mp_res = NoCall
    /\ instance = NoInstance
    /\ nmade = 0
    /\ returned = <<>>
    /\ rpc = "new"
    /\ name = <<>>
    /\ queue_streams = FALSE
    /\ stream_queue = NoInstance
    /\ rlog = <<>>
    /\ gone = "no"
    /\ reaped = {}

\* ------------------------------------------------- instrument drivers
\* the value None of an attribute that holds text, and of a row number
NoStatus == "None"
NoRow == 0 - 1
\* no response of the instrument held
NoResponse == 0 - 1

\* Arm.__init__: a new arm has no head status, no row and no end position
InitArm ==
    /\ _arm_head_status = NoStatus
    /\ _current_row_num = NoRow
    /\ _end_pos = FALSE
    /\ apc = "idle"
    /\ aop = "none"
    /\ aout = [kind |-> "none", etype |-> NoType]
    /\ sent = 0
    /\ ancalls = 0

\* the corrections of the B1520A: open, short and load
Corrs == {"OPEN", "SHORT", "LOAD"}

\* what a method of Correction has not produced
NoValue == [status |-> NoResponse, enable |-> "None"]

\* a Correction submodule of an instrument with every correction disabled
InitCorrection ==
    /\ enabled = [corr \in Corrs |-> FALSE]
    /\ kpc = "idle"
    /\ kop = [m |-> "none", corr |-> "OPEN", state |-> TRUE]
    /\ kresp = NoResponse
    /\ klog = <<>>
    /\ kout = [kind |-> "none", etype |-> NoType, val |-> NoValue]
    /\ kcalls = 0

InitDrivers == InitArm /\ InitCorrection

Init == InitManager /\ InitStreams(StdOut, StdErr) /\ InitProcess /\ InitDrivers

\* ------------------------------------------------------------- messages
\* one line of text: its leading token (up to the first ':') and what follows
Line(tok, about) == [tok |-> tok, about |-> about]

\* errhead = '*** error on {} ***'.format(self.name)
errhead == Line("*** error on server ***", 0)

\* ErrMessage that leaves the text of the error record out
ErrMessage_headonly(errstr) == <<errhead, Line("", 0)>>

\* raise err_type(errhead + '\n\n' + errstr)
ErrMessage(errstr) == <<errhead, Line("", 0)>> \o errstr

\* the names that end in 'Error', among those a record can end with
ErrorNames == {"TypeError", "UnicodeDecodeError", "ServerError", "RuntimeError"}

\* the names of the module builtins, among those a record can end with
Builtins == {"TypeError", "UnicodeDecodeError", "RuntimeError", "KeyboardInterrupt"}

\* the names in globals() of the module
Globals == {"mp", "sys", "datetime", "time", "print_exc", "Empty", "uuid4",
            "builtins", "in_notebook", "MP_ERR", "SERVER_ERR", "set_mp_method",
            "QcodesProcess", "get_stream_queue", "StreamQueue", "_SQWriter",
            "ServerManager", "kill_queue"}

\* the names in locals() of _check_for_errors
Locals == {"self", "expect_error", "errstr", "errhead", "err_type", "err_type_str"}

\* the exception types that cannot be made from a message alone: they
\* take five arguments
FiveArgs == {"UnicodeDecodeError"}

\* errstr.rstrip(): without the blank lines at its end
RECURSIVE Rstrip(_)
Rstrip(errstr) ==
    IF errstr = <<>> THEN <<>>
    ELSE IF Last(errstr).tok = "" THEN Rstrip(SubSeq(errstr, 1, Len(errstr) - 1))
    ELSE errstr

\* err_type_str = errstr.rstrip().rsplit('\n', 1)[-1].split(':')[0]
\* (tok is the text of a line up to its first colon)
ErrTypeStr(errstr) ==
    IF Rstrip(errstr) = <<>> THEN "" ELSE Last(Rstrip(errstr)).tok

\* the exception type _check_for_errors picks for an error record
ErrType(errstr) ==
    LET err_type_str == ErrTypeStr(errstr)
        \* err_type = getattr(builtins, err_type_str, None)
        t1 == IF err_type_str \in Builtins THEN err_type_str ELSE NoType
        \* if err_type is None and err_type in globals()
        t2 == IF t1 = NoType /\ t1 \in Globals THEN err_type_str ELSE t1
        \* if err_type is None and err_type_str in locals()
        t3 == IF t2 = NoType /\ err_type_str \in Locals THEN err_type_str ELSE t2
        err_type == IF err_type_str \in ErrorNames THEN t3 ELSE NoType
    IN  IF err_type = NoType THEN "RuntimeError" ELSE err_type

\* err_type(message): the exception made, or the TypeError of making it
New(err_type, message) ==
    IF err_type \in FiveArgs
    THEN [etype |-> "TypeError",
          msg |-> <<Line("function takes exactly 5 arguments (1 given)", 0)>>]
    ELSE [etype |-> err_type, msg |-> message]

\* t is a suffix of s
EndsWith(s, t) ==
    /\ Len(t) <= Len(s)
    /\ SubSeq(s, Len(s) - Len(t) + 1, Len(s)) = t

\* ------------------------------------------------------- ServerManager
\* _check_response that forgets an earlier expect_error
_check_response_forgets(r, e) == <<r, r.tag = SERVER_ERR>>

\* _check_response: the response just read and the new expect_error
_check_response(r, e) == <<r, IF r.tag = SERVER_ERR THEN TRUE ELSE e>>

\* timeout = timeout or self.query_timeout   (None and 0 are both falsy)
EffectiveTimeout(t) == IF t = 0 THEN query_timeout ELSE t

\* self._error_queue.get(self.query_timeout): the first positional parameter
\* of Queue.get is `block`, so the call is get(block=bool(query_timeout),
\* timeout=None): it waits without limit whenever query_timeout is not 0
ErrorGetBlocks == query_timeout # 0

\* the caller enters ask(*query, timeout=t)
CallAsk(c, args, touts, max) ==
    /\ pc[c] = "idle"
    /\ ncalls < max
    /\ \E a \in args, t \in touts :
          /\ qry' = [qry EXCEPT ![c] = [id |-> ncalls + 1, arg |-> a]]
          /\ timeout' = [timeout EXCEPT ![c] = EffectiveTimeout(t)]
    /\ ncalls' = ncalls + 1
    /\ op' = [op EXCEPT ![c] = "ask"]
    /\ expect_error' = [expect_error EXCEPT ![c] = FALSE]
    /\ res' = [res EXCEPT ![c] = NoRes]
    /\ outcome' = [outcome EXCEPT ![c] = NoOutcome]
    /\ pc' = [pc EXCEPT ![c] = "lock"]
    /\ elapsed' = [elapsed EXCEPT ![c] = 0]
    /\ reads' = [reads EXCEPT ![c] = <<>>]
    /\ sawErr' = [sawErr EXCEPT ![c] = FALSE]
    /\ start_err' = [start_err EXCEPT ![c] = error_queue]
    /\ start_done' = [start_done EXCEPT ![c] = (wput.sentinel = wput.record)]
    /\ UNCHANGED <<chans, query_lock, worker, rput, mark, life, streams, reader, wrote, process, drivers>>

\* the caller enters write(*query)
CallWrite(c, args, max) ==
    /\ pc[c] = "idle"
    /\ ncalls < max
    /\ \E a \in args :
          qry' = [qry EXCEPT ![c] = [id |-> ncalls + 1, arg |-> a]]
    /\ ncalls' = ncalls + 1
    /\ op' = [op EXCEPT ![c] = "write"]
    /\ expect_error' = [expect_error EXCEPT ![c] = FALSE]
    /\ res' = [res EXCEPT ![c] = NoRes]
    /\ outcome' = [outcome EXCEPT ![c] = NoOutcome]
    /\ pc' = [pc EXCEPT ![c] = "w_put"]
    /\ elapsed' = [elapsed EXCEPT ![c] = 0]
    /\ reads' = [reads EXCEPT ![c] = <<>>]
    /\ sawErr' = [sawErr EXCEPT ![c] = FALSE]
    /\ start_err' = [start_err EXCEPT ![c] = error_queue]
    /\ start_done' = [start_done EXCEPT ![c] = (wput.sentinel = wput.record)]
    /\ UNCHANGED <<chans, query_lock, timeout, worker, rput, mark, life, streams, reader, wrote, process, drivers>>

\* Throw that lets the call return normally
Throw_swallow(c, exc) ==
    /\ outcome' = [outcome EXCEPT ![c] =
                      [op |-> op[c], id |-> qry[c].id, kind |-> "return", etype |-> NoType,
                       val |-> NoRes, msg |-> <<>>]]
    /\ pc' = [pc EXCEPT ![c] = "idle"]

\* the call ends with an exception raised by the interpreter: AttributeError
\* for an attribute that close() has deleted, AssertionError for a process
\* operation that only the parent process may do
Throw(c, exc) ==
    /\ outcome' = [outcome EXCEPT ![c] =
                      [op |-> op[c], id |-> qry[c].id, kind |-> "raise", etype |-> exc,
                       val |-> NoRes, msg |-> <<Line(exc, 0)>>]]
    /\ pc' = [pc EXCEPT ![c] = "idle"]

\* WritePut that sends the query again (a retry)
WritePut_twice(c) ==
    /\ pc[c] = "w_put"
    /\ query_queue' = query_queue \o <<qry[c], qry[c]>>
    /\ pc' = [pc EXCEPT ![c] = "check"]
    /\ UNCHANGED <<response_queue, error_queue, query_lock, locals, outcome,
                   ncalls, worker, rput, elapsed, hist, life, streams, reader, wrote, process, drivers>>

\* write(): self._query_queue.put(query); then _check_for_errors()
WritePut(c) ==
    /\ pc[c] = "w_put"
    /\ IF closed[c]
       THEN \* self._query_queue no longer exists
            /\ Throw(c, "AttributeError")
            /\ UNCHANGED query_queue
       ELSE /\ query_queue' = Append(query_queue, qry[c])
            /\ pc' = [pc EXCEPT ![c] = "check"]
            /\ UNCHANGED outcome
    /\ UNCHANGED <<response_queue, error_queue, query_lock, locals,
                   ncalls, worker, rput, elapsed, reads, sawErr, mark, start_err, start_done, life, streams, reader, wrote, process, drivers>>

\* AskAcquire without the test that the lock is free
AskAcquire_unguarded(c) ==
    /\ pc[c] = "lock"
    /\ query_lock' = c
    /\ pc' = [pc EXCEPT ![c] = "clear"]
    /\ UNCHANGED <<chans, locals, outcome, ncalls, worker, rput, elapsed, hist, life, streams, reader, wrote, process, drivers>>

\* ask(): with self.query_lock
AskAcquire(c) ==
    /\ pc[c] = "lock"
    /\ IF closed[c]
       THEN \* self.query_lock no longer exists
            /\ Throw(c, "AttributeError")
            /\ UNCHANGED query_lock
       ELSE /\ query_lock = NoOwner
            /\ query_lock' = c
            /\ pc' = [pc EXCEPT ![c] = "clear"]
            /\ UNCHANGED outcome
    /\ UNCHANGED <<chans, locals, ncalls, worker, rput, elapsed, hist, life, streams, reader, wrote, process, drivers>>

\* one read of the response queue by ask(): res, expect_error =
\* self._check_response(expect_error), where the get() waits without limit
ReadResponse(c, next, counted) ==
    /\ response_queue # <<>>
    /\ LET r == _check_response(Head(response_queue), expect_error[c]) IN
          /\ res' = [res EXCEPT ![c] = r[1]]
          /\ expect_error' = [expect_error EXCEPT ![c] = r[2]]
    /\ response_queue' = Tail(response_queue)
    /\ pc' = [pc EXCEPT ![c] = next]
    /\ sawErr' = [sawErr EXCEPT ![c] = @ \/ Head(response_queue).tag = SERVER_ERR]
    /\ reads' = [reads EXCEPT ![c] =
                    IF counted THEN Append(@, Head(response_queue)) ELSE @]
    /\ UNCHANGED <<query_queue, error_queue, query_lock, op, qry, timeout,
                   outcome, ncalls, worker, rput, elapsed, mark, start_err, start_done, life, streams, reader, wrote, process, drivers>>

\* ask(): while not self._response_queue.empty(): _check_response(...)
\* (the loop that clears what an earlier query left behind)
AskClear(c) ==
    /\ pc[c] \in {"clear", "clear_get"}
    /\ IF pc[c] = "clear"
       THEN /\ pc' = [pc EXCEPT ![c] =
                        IF response_queue # <<>> THEN "clear_get" ELSE "put"]
            /\ UNCHANGED <<chans, query_lock, locals, outcome, ncalls, worker,
                           rput, elapsed, hist, life, streams, reader, wrote, process, drivers>>
       ELSE ReadResponse(c, "clear", FALSE)

\* AskPut that sends the query again (a retry)
AskPut_twice(c) ==
    /\ pc[c] = "put"
    /\ query_queue' = query_queue \o <<qry[c], qry[c]>>
    /\ pc' = [pc EXCEPT ![c] = "recv"]
    /\ UNCHANGED <<response_queue, error_queue, query_lock, locals, outcome,
                   ncalls, worker, rput, elapsed, hist, life, streams, reader, wrote, process, drivers>>

\* ask(): self._query_queue.put(query)
AskPut(c) ==
    /\ pc[c] = "put"
    /\ query_queue' = Append(query_queue, qry[c])
    /\ pc' = [pc EXCEPT ![c] = "recv"]
    /\ UNCHANGED <<response_queue, error_queue, query_lock, locals, outcome,
                   ncalls, worker, rput, elapsed, reads, sawErr, mark, start_err, start_done, life, streams, reader, wrote, process, drivers>>

\* ask(): the first res, expect_error = self._check_response(expect_error)
\* after the put.  _check_response calls get() with neither block nor
\* timeout, so it never raises Empty: the `except Empty` branch of ask() is
\* unreachable and the local `timeout` is not used.
AskRecv(c) ==
    /\ pc[c] = "recv"
    /\ ReadResponse(c, "more", TRUE)

\* MoreNext of a loop that never runs
MoreNext_once == "check"

\* ask(), line 314: the test of `while not self._response_queue.empty()`
MoreNext == IF response_queue # <<>> THEN "more_get" ELSE "check"

\* ask(): while not self._response_queue.empty(): _check_response(...)
\* (the loop after the first response)
AskMore(c) ==
    /\ pc[c] \in {"more", "more_get"}
    /\ IF pc[c] = "more"
       THEN /\ pc' = [pc EXCEPT ![c] = MoreNext]
            /\ mark' = [mark EXCEPT ![c] = IF MoreNext = "check" THEN rput ELSE @]
            /\ UNCHANGED <<chans, query_lock, locals, outcome, ncalls, worker,
                           rput, elapsed, reads, sawErr, start_err, start_done, life, streams, reader, wrote, process, drivers>>
       ELSE ReadResponse(c, "more", TRUE)

\* Return that releases the lock whatever the call was
Return_release(c) ==
    /\ outcome' = [outcome EXCEPT ![c] =
                      [op |-> op[c], id |-> qry[c].id, kind |-> "return", etype |-> NoType,
                       val |-> IF op[c] = "ask" THEN res[c] ELSE NoRes,
                       msg |-> <<>>]]
    /\ query_lock' = NoOwner
    /\ pc' = [pc EXCEPT ![c] = "idle"]

\* the call ends: ask() returns res and leaves the `with` block, write()
\* returns None; a write('halt') made by halt() returns into halt(), which
\* goes on with self._server.join(timeout)
Return(c) ==
    IF op[c] \in LifeOps
    THEN /\ pc' = [pc EXCEPT ![c] = "h_join"]
         /\ UNCHANGED <<outcome, query_lock>>
    ELSE /\ outcome' = [outcome EXCEPT ![c] =
                           [op |-> op[c], id |-> qry[c].id, kind |-> "return", etype |-> NoType,
                            val |-> IF op[c] = "ask" THEN res[c] ELSE NoRes,
                            msg |-> <<>>]]
         /\ query_lock' = IF op[c] = "ask" THEN NoOwner ELSE query_lock
         /\ pc' = [pc EXCEPT ![c] = "idle"]

\* the call ends by raising err_type(errhead + '\n\n' + errstr)
Raise(c, errstr) ==
    /\ LET exc == New(ErrType(errstr), ErrMessage(errstr))
       IN  outcome' = [outcome EXCEPT ![c] =
                          [op |-> op[c], id |-> qry[c].id, kind |-> "raise",
                           etype |-> exc.etype, val |-> NoRes, msg |-> exc.msg]]
    /\ query_lock' = IF op[c] = "ask" THEN NoOwner ELSE query_lock
    /\ pc' = [pc EXCEPT ![c] = "idle"]

\* DrainNext of a _check_for_errors that does not clear the response queue
DrainNext_skip == "e_get"

\* _check_for_errors, line 267: the test of
\* `while not self._response_queue.empty()`
DrainNext == IF response_queue # <<>> THEN "e_drain_get" ELSE "e_get"

\* ErrorSeen that looks at expect_error only
ErrorSeen_flagonly(c) == expect_error[c]

\* the test of _check_for_errors: expect_error or not self._error_queue.empty()
ErrorSeen(c) == expect_error[c] \/ error_queue # <<>>

\* _check_for_errors(expect_error), called at the end of ask() and of write()
CheckForErrors(c) ==
    /\ pc[c] \in {"check", "e_drain", "e_drain_get", "e_get"}
    /\ CASE pc[c] = "check" ->
              IF ErrorSeen(c)
              THEN /\ pc' = [pc EXCEPT ![c] = "e_drain"]
                   /\ mark' = [mark EXCEPT ![c] = rput]
                   /\ UNCHANGED <<chans, query_lock, outcome>>
              ELSE /\ Return(c)
                   /\ UNCHANGED <<chans, mark>>
         [] pc[c] = "e_drain" ->
              \* while not self._response_queue.empty():
              /\ pc' = [pc EXCEPT ![c] = DrainNext]
              /\ UNCHANGED <<chans, query_lock, outcome, mark>>
         [] pc[c] = "e_drain_get" ->
              \* self._response_queue.get()
              /\ response_queue # <<>>
              /\ response_queue' = Tail(response_queue)
              /\ pc' = [pc EXCEPT ![c] = "e_drain"]
              /\ UNCHANGED <<query_queue, error_queue, query_lock, outcome, mark>>
         [] OTHER ->
              \* errstr = self._error_queue.get(self.query_timeout); raise
              /\ ErrorGetBlocks
              /\ error_queue # <<>>
              /\ Raise(c, Head(error_queue))
              /\ error_queue' = Tail(error_queue)
              /\ UNCHANGED <<query_queue, response_queue, mark>>
    /\ UNCHANGED <<locals, ncalls, worker, rput, elapsed, reads, sawErr,
                   start_err, start_done, life, streams, reader, wrote, process, drivers>>

\* ------------------------------------------- halt, restart and close
\* is_alive(), join() and terminate() of a Process assert that the caller is
\* the process that started it
IsParent(c) == c = Main

\* every process this module starts is a QcodesProcess with daemon=True; a
\* daemonic process may not start children
Daemonic(c) == c # Main

\* the caller enters halt(), restart() or close(), each of which begins
\* with the body of halt()
CallLife(c, ops, max) ==
    /\ pc[c] = "idle"
    /\ ncalls < max
    /\ \E o \in ops : op' = [op EXCEPT ![c] = o]
    /\ qry' = [qry EXCEPT ![c] = [id |-> ncalls + 1, arg |-> StopArg]]
    /\ ncalls' = ncalls + 1
    /\ expect_error' = [expect_error EXCEPT ![c] = FALSE]
    /\ res' = [res EXCEPT ![c] = NoRes]
    /\ outcome' = [outcome EXCEPT ![c] = NoOutcome]
    /\ pc' = [pc EXCEPT ![c] = "h_alive"]
    /\ elapsed' = [elapsed EXCEPT ![c] = 0]
    /\ reads' = [reads EXCEPT ![c] = <<>>]
    /\ sawErr' = [sawErr EXCEPT ![c] = FALSE]
    /\ start_err' = [start_err EXCEPT ![c] = error_queue]
    /\ start_done' = [start_done EXCEPT ![c] = (wput.sentinel = wput.record)]
    /\ start_live' = [start_live EXCEPT ![c] = live]
    /\ UNCHANGED <<chans, query_lock, timeout, worker, rput, mark, live,
                   nstarted, _server, closed, notices, streams, reader, wrote, process, drivers>>

\* AliveNext of a halt() that sends the stop query whatever the server's state
AliveNext_always(c) == IF ~IsParent(c) THEN "h_end" ELSE "w_put"

\* halt(), line 331: `if self._server.is_alive(): self.write('halt')`.
\* Outside the parent process is_alive() raises AssertionError, which the
\* `except AssertionError: pass` of halt() turns into a return.
AliveNext(c) ==
    IF ~IsParent(c) THEN "h_end"
    ELSE IF _server \in live THEN "w_put" ELSE "h_join"

\* Terminated of a halt() that leaves a server that is still alive alone
Terminated_none == live

\* the live processes after self._server.terminate()
Terminated == live \ {_server}

\* halt(self, timeout=2), as restart() and close() call it
halt_timeout == 2

\* JoinEnds of a join() that returns at once
JoinEnds_atonce(c) == TRUE

\* self._server.join(timeout) returns: the server process has ended or the
\* timeout has passed
JoinEnds(c) == _server \notin live \/ elapsed[c] >= halt_timeout

\* time passes while a caller waits in self._server.join(timeout)
JoinTick ==
    /\ \E c \in Callers :
          /\ pc[c] = "h_join"
          /\ ~JoinEnds(c)
          /\ elapsed' = [elapsed EXCEPT ![c] = @ + 1]
    /\ UNCHANGED <<chans, query_lock, pc, locals, outcome, ncalls, worker, rput,
                   hist, life, streams, reader, wrote, process, drivers>>

\* halt() around its write('halt'): the is_alive() test, then
\* self._server.join(timeout), which returns when the server has ended or
\* the timeout has passed, then the second is_alive() test, terminate() and
\* the printed notice
Halt(c) ==
    /\ pc[c] \in {"h_alive", "h_join", "h_kill"}
    /\ CASE pc[c] = "h_alive" ->
              /\ pc' = [pc EXCEPT ![c] = AliveNext(c)]
              /\ UNCHANGED <<live, notices>>
         [] pc[c] = "h_join" ->
              /\ JoinEnds(c)
              /\ pc' = [pc EXCEPT ![c] = "h_kill"]
              /\ UNCHANGED <<live, notices>>
         [] OTHER ->
              /\ pc' = [pc EXCEPT ![c] = "h_end"]
              /\ IF _server \in live
                 THEN /\ live' = Terminated
                      /\ notices' = notices + 1
                 ELSE UNCHANGED <<live, notices>>
    /\ UNCHANGED <<chans, query_lock, locals, outcome, ncalls, wpc, wcur, wput,
                   rput, elapsed, hist, nstarted, _server, closed, start_live,
                   streams, reader, wrote, process, drivers>>

\* the call returns None
ReturnNone(c) ==
    /\ outcome' = [outcome EXCEPT ![c] =
                      [op |-> op[c], id |-> qry[c].id, kind |-> "return", etype |-> NoType,
                       val |-> NoRes, msg |-> <<>>]]
    /\ pc' = [pc EXCEPT ![c] = "idle"]

\* halt() returns
HaltReturn(c) ==
    /\ pc[c] = "h_end"
    /\ op[c] = "halt"
    /\ ReturnNone(c)
    /\ UNCHANGED <<chans, query_lock, locals, ncalls, worker, rput, elapsed,
                   hist, life, streams, reader, wrote, process, drivers>>

\* _start_server(): self._server = QcodesProcess(target=self._run_server,
\* name=self.name); self._server.start().  The new process runs
\* server_class on the manager's queues as the caller's manager has them.
_start_server(c) ==
    /\ nstarted' = nstarted + 1
    /\ _server' = nstarted + 1
    /\ live' = live \cup {nstarted + 1}
    /\ wpc' = IF closed[c] THEN "crash" ELSE "wait"
    /\ wcur' = NoQuery
    /\ wput' = [resp |-> 0, sentinel |-> FALSE, record |-> FALSE]

\* restart(): after halt(), self._start_server()
Restart(c) ==
    /\ pc[c] = "h_end"
    /\ op[c] = "restart"
    /\ IF Daemonic(c)
       THEN \* Process.start(): daemonic processes are not allowed to have children
            /\ Throw(c, "AssertionError")
            /\ UNCHANGED <<worker, live, nstarted, _server>>
       ELSE /\ _start_server(c)
            /\ ReturnNone(c)
    /\ UNCHANGED <<chans, query_lock, locals, ncalls, rput, elapsed, hist,
                   closed, notices, start_live, streams, reader, wrote, process, drivers>>

\* close(): after halt(), kill_queue and del of each of the three queues
\* that the manager still has, and del of query_lock
Close(c) ==
    /\ pc[c] = "h_end"
    /\ op[c] = "close"
    /\ closed' = [closed EXCEPT ![c] = TRUE]
    /\ ReturnNone(c)
    /\ UNCHANGED <<chans, query_lock, locals, ncalls, worker, rput, elapsed,
                   hist, live, nstarted, _server, notices, start_live, streams, reader, wrote, process, drivers>>

\* the server process started by a manager whose queues close() has deleted:
\* _run_server raises AttributeError on self._query_queue, QcodesProcess.run
\* prints the traceback and the process ends
WorkerCrash ==
    /\ _server \in live
    /\ wpc = "crash"
    /\ wpc' = "done"
    /\ live' = live \ {_server}
    /\ UNCHANGED <<chans, query_lock, pc, locals, outcome, ncalls, wcur, wput,
                   rput, elapsed, hist, nstarted, _server, closed, notices,
                   start_live, streams, reader, wrote, process, drivers>>

\* ------------------------------------------------------------- server
\* The server process: the function handed to ServerManager as server_class.
\* It is not part of the module; its contract is that it reads requests in
\* a loop and produces one response, or SERVER_ERR plus an error record, per
\* request, and goes on with the next request.

\* the text the server puts on the error queue: a traceback whose last line
\* names the error
ErrorRecord(q) ==
    <<Line("Traceback (most recent call last)", 0),
      Line(CASE q.arg = "u" -> "UnicodeDecodeError"
             [] q.arg = "s" -> "ServerError"
             [] q.arg = "k" -> "KeyboardInterrupt"
             [] OTHER -> "TypeError", q.id)>>
    \o (IF q.arg = "k" THEN <<Line("", 0)>> ELSE <<>>)

\* the example server of the specification squares its numeric argument
\* and fails on any other
IsNumber(a) == a \in {"1", "2", "5"}
Square(a) == CASE a = "1" -> 1 [] a = "2" -> 4 [] a = "5" -> 25 [] OTHER -> 0

\* qid and sn are history tags: the request answered and the position of
\* the put among all puts on the response queue
Response(q) == [tag |-> "val", val |-> Square(q.arg), qid |-> q.id, sn |-> rput + 1]
Sentinel == [tag |-> SERVER_ERR, val |-> 0, qid |-> 0, sn |-> rput + 1]

\* query = query_queue.get()
WorkerGet ==
    /\ _server \in live
    /\ wpc = "wait"
    /\ query_queue # <<>>
    /\ wcur' = Head(query_queue)
    /\ query_queue' = Tail(query_queue)
    /\ IF Head(query_queue).arg = StopArg
       THEN \* the stop query: the server leaves its loop and the process ends
            /\ wpc' = "done"
            /\ live' = live \ {_server}
       ELSE /\ wpc' = "serve"
            /\ UNCHANGED live
    /\ wput' = [resp |-> 0, sentinel |-> FALSE, record |-> FALSE]
    /\ UNCHANGED <<response_queue, error_queue, query_lock, pc, locals, outcome,
                   ncalls, rput, elapsed, hist, nstarted, _server, closed,
                   notices, start_live, streams, reader, wrote, process, drivers>>

\* response_queue.put(result)
WorkerRespond ==
    /\ _server \in live
    /\ wpc = "serve"
    /\ IsNumber(wcur.arg)
    /\ response_queue' = Append(response_queue, Response(wcur))
    /\ rput' = rput + 1
    /\ wput' = [wput EXCEPT !.resp = 1]
    /\ wpc' = "wait"
    /\ UNCHANGED <<query_queue, error_queue, query_lock, pc, locals, outcome,
                   ncalls, wcur, elapsed, hist, life, streams, reader, wrote, process, drivers>>

\* a server that over-produces: one more response for the request it has
\* already answered
WorkerExtra ==
    /\ _server \in live
    /\ wpc = "wait"
    /\ IsNumber(wcur.arg)
    /\ wput.resp >= 1
    /\ wput.resp < 1 + MaxExtra
    /\ response_queue' = Append(response_queue, Response(wcur))
    /\ rput' = rput + 1
    /\ wput' = [wput EXCEPT !.resp = @ + 1]
    /\ UNCHANGED <<query_queue, error_queue, query_lock, pc, locals, outcome,
                   ncalls, wpc, wcur, elapsed, hist, life, streams, reader, wrote, process, drivers>>

\* the request fails: the server puts SERVER_ERR on the response queue and
\* the error record on the error queue.  The two puts go to different
\* queues, each fed by its own thread, so they become visible in either order.
WorkerFail ==
    /\ _server \in live
    /\ wpc = "serve"
    /\ wcur.arg # "none" /\ ~IsNumber(wcur.arg)
    /\ \E first \in BOOLEAN :
          IF (first \/ wput.record) /\ ~wput.sentinel
          THEN /\ response_queue' = Append(response_queue, Sentinel)
               /\ rput' = rput + 1
               /\ wput' = [wput EXCEPT !.sentinel = TRUE]
               /\ wpc' = IF wput.record THEN "wait" ELSE "serve"
               /\ UNCHANGED error_queue
          ELSE /\ ~wput.record
               /\ error_queue' = Append(error_queue, ErrorRecord(wcur))
               /\ wput' = [wput EXCEPT !.record = TRUE]
               /\ wpc' = IF wput.sentinel THEN "wait" ELSE "serve"
               /\ UNCHANGED <<response_queue, rput>>
    /\ UNCHANGED <<query_queue, query_lock, pc, locals, outcome, ncalls, wcur,
                   elapsed, hist, life, streams, reader, wrote, process, drivers>>

\* time passes while a caller is blocked in self._response_queue.get()
Tick ==
    /\ \E c \in Callers :
          /\ pc[c] = "recv"
          /\ response_queue = <<>>
          /\ elapsed[c] < MaxWait
          /\ elapsed' = [elapsed EXCEPT ![c] = @ + 1]
    /\ UNCHANGED <<chans, query_lock, pc, locals, outcome, ncalls, worker, rput,
                   hist, life, streams, reader, wrote, process, drivers>>

\* ------------------------------------------------ StreamQueue, _SQWriter
\* the name a process connects under
ProcessNames == {<<"A">>, <<"B">>}

\* process_name + ' ERR'
ErrName(process_name) == Append(process_name, " ERR")

\* AlreadyConnected of a connect() that does not look
AlreadyConnected_never == FALSE

\* connect(): if self.initial_streams is not None
AlreadyConnected == initial_streams # NoStreams

\* Saved of a connect() that takes the interpreter's own streams for the
\* active ones
Saved_std == <<StdOut, StdErr>>

\* connect(): self.initial_streams = (sys.stdout, sys.stderr)
Saved == <<sys_stdout, sys_stderr>>

\* number of connect() and disconnect() calls in one behaviour
MaxSCalls == 3
\* number of messages written to the stream queue in one behaviour
MaxMsgs == 1
\* how long the clock of the stream specification runs
MaxTime == 4

\* the body of StreamQueue.connect(process_name)
connect(process_name) ==
    IF AlreadyConnected
    THEN \* raise RuntimeError('StreamQueue is already connected')
         /\ slog' = Append(slog, [op |-> "connect", kind |-> "raise"])
         /\ UNCHANGED <<initial_streams, sys_stdout, sys_stderr, before>>
    ELSE /\ initial_streams' = Saved
         /\ sys_stdout' = _SQWriter(process_name)
         /\ sys_stderr' = _SQWriter(ErrName(process_name))
         /\ slog' = Append(slog, [op |-> "connect", kind |-> "return"])
         /\ before' = <<sys_stdout, sys_stderr>>

\* StreamQueue.connect(process_name)
Connect(process_name) ==
    /\ Len(slog) < MaxSCalls
    /\ connect(process_name)
    /\ UNCHANGED <<manager, sq_queue, last_read_ts, now, terminal, reader, wrote, process, drivers>>

\* the body of StreamQueue.disconnect()
disconnect ==
    IF initial_streams = NoStreams
    THEN \* raise RuntimeError('StreamQueue is not connected')
         /\ slog' = Append(slog, [op |-> "disconnect", kind |-> "raise"])
         /\ UNCHANGED <<initial_streams, sys_stdout, sys_stderr>>
    ELSE /\ sys_stdout' = initial_streams[1]
         /\ sys_stderr' = initial_streams[2]
         /\ initial_streams' = NoStreams
         /\ slog' = Append(slog, [op |-> "disconnect", kind |-> "return"])

\* StreamQueue.disconnect()
Disconnect ==
    /\ Len(slog) < MaxSCalls
    /\ disconnect
    /\ UNCHANGED <<manager, sq_queue, last_read_ts, now, terminal, before, reader, wrote, process, drivers>>

\* the class attribute of _SQWriter
MIN_READ_TIME == 3

\* the texts a process writes: a message is a sequence of characters
Msgs == {<<>>, <<"\n">>, <<"a", "\n">>, <<"a">>}

\* termstr = '[{} {}] {}'.format(*msgtuple), without its last character if
\* that is a newline
Termstr(msgtuple) ==
    [ts |-> msgtuple.ts, stream_name |-> msgtuple.stream_name,
     msg |-> IF Last(msgtuple.msg) = "\n"
             THEN SubSeq(msgtuple.msg, 1, Len(msgtuple.msg) - 1)
             ELSE msgtuple.msg]

\* one call of a writer, as the history keeps it
WCall(o, w, msg, k) == [op |-> o, kind |-> k, name |-> w.name, msg |-> msg]

\* Echo of a writer that mirrors whatever the age of the queue
Echo_always(msg) == msg # <<"\n">>

\* write(): queue_age > self.MIN_READ_TIME and msg != '\n'
Echo(msg) == now - last_read_ts > MIN_READ_TIME /\ msg # <<"\n">>

\* Restored of a writer that puts back what connect() had saved
Restored_initial == IF initial_streams = NoStreams
                    THEN <<sys_stdout, sys_stderr>> ELSE initial_streams

\* write(), on a failure: sys.stdout, sys.stderr = sys.__stdout__, sys.__stderr__
Restored == <<StdOut, StdErr>>

\* Put of a writer that puts the message under a fixed name
Put_anonymous(w, msg) == Append(sq_queue, [ts |-> now, stream_name |-> <<"A">>, msg |-> msg])

\* write(): msgtuple = (timestamp, self.stream_name, msg); self.queue.put(msgtuple)
Put(w, msg) == Append(sq_queue, [ts |-> now, stream_name |-> w.name, msg |-> msg])

\* _SQWriter.write(msg) of the writer w.  `fault` is what goes wrong:
\* nothing, the queue's put raising, the print to the terminal raising
\* ValueError (which is passed over) or raising anything else.
SQWrite(w, msg, fault) ==
    LET echo == Echo(msg)
        fails == fault = "put" \/ (fault = "print" /\ echo)
    IN  IF msg = <<>>
        THEN \* `if msg:` an empty text is ignored
             /\ wlog' = Append(wlog, WCall("write", w, msg, "return"))
             /\ UNCHANGED <<sq_queue, terminal, sys_stdout, sys_stderr, written>>
        ELSE /\ sq_queue' = IF fault = "put" THEN sq_queue ELSE Put(w, msg)
             /\ written' = IF fault = "put" THEN written
                           ELSE Append(written, Last(Put(w, msg)))
             /\ terminal' = IF echo /\ fault = "none"
                            THEN Append(terminal, Termstr(Last(Put(w, msg))))
                            ELSE terminal
             /\ IF fails
                THEN \* sys.stdout, sys.stderr = sys.__stdout__, sys.__stderr__; raise
                     /\ sys_stdout' = Restored[1]
                     /\ sys_stderr' = Restored[2]
                     /\ wlog' = Append(wlog, WCall("write", w, msg, "raise"))
                ELSE /\ UNCHANGED <<sys_stdout, sys_stderr>>
                     /\ wlog' = Append(wlog, WCall("write", w, msg, "return"))

\* the process writes msg to its sys.stdout (err = FALSE) or sys.stderr
\* while that is a _SQWriter; an empty msg is ignored
Write ==
    /\ Len(wlog) < MaxMsgs
    /\ \E err \in BOOLEAN, msg \in Msgs, fault \in {"none", "put", "print", "ValueError"} :
          LET w == IF err THEN sys_stderr ELSE sys_stdout IN
          /\ w.kind = "_SQWriter"
          /\ SQWrite(w, msg, fault)
    /\ UNCHANGED <<manager, initial_streams, last_read_ts, now, slog, before, reader, process, drivers>>

\* a process that is connected under one of `names` writes one of `msgs`
\* to its sys.stdout; nothing goes wrong
WriteFrom(names, msgs, max) ==
    /\ Len(wlog) < max
    /\ \E n \in names, msg \in msgs : SQWrite(_SQWriter(n), msg, "none")
    /\ UNCHANGED <<manager, initial_streams, last_read_ts, now, slog, before, reader, process, drivers>>

\* _SQWriter.flush() of the process's sys.stdout or sys.stderr: pass
Flush ==
    /\ Len(wlog) < MaxMsgs
    /\ \E err \in BOOLEAN :
          LET w == IF err THEN sys_stderr ELSE sys_stdout IN
          /\ w.kind = "_SQWriter"
          /\ wlog' = Append(wlog, WCall("flush", w, <<>>, "return"))
    /\ UNCHANGED <<manager, streams, reader, written, process, drivers>>

\* time passes, up to max
Clock(max) ==
    /\ now < max
    /\ now' = now + 1
    /\ UNCHANGED <<manager, initial_streams, sys_stdout, sys_stderr, sq_queue,
                   last_read_ts, terminal, slog, before, reader, wrote, process, drivers>>

\* time passes
Tock == Clock(MaxTime)

\* ------------------------------------------------------ StreamQueue.get
\* the text get() returns is a sequence of characters and line heads
Ch(c) == [kind |-> "char", ch |-> c, ts |-> 0, name |-> <<>>]

\* line_head = '[{} {}] '.format(timestr, stream_name)
LineHead(timestr, stream_name) ==
    [kind |-> "head", ch |-> "", ts |-> timestr, name |-> stream_name]

\* Replace of a get() that puts no line head inside a message
Replace_plain(s, line_head) == [i \in 1..Len(s) |-> Ch(s[i])]

\* s.replace('\n', '\n' + line_head)
RECURSIVE Replace(_, _)
Replace(s, line_head) ==
    IF s = <<>> THEN <<>>
    ELSE (IF Head(s) = "\n" THEN <<Ch("\n"), line_head>> ELSE <<Ch(Head(s))>>)
         \o Replace(Tail(s), line_head)

\* Body of a get() that loses the last character of a message
Body_short(msg, line_head) ==
    Replace(SubSeq(msg, 1, Len(msg) - 1), line_head)

\* msg[:-1].replace('\n', '\n' + line_head) + msg[-1]
Body(msg, line_head) ==
    Replace(SubSeq(msg, 1, Len(msg) - 1), line_head) \o <<Ch(Last(msg))>>

\* OnNewLine of a get() that takes every message to end its line
OnNewLine_always(msg) == TRUE

\* self._on_new_line = (msg[-1] == '\n')
OnNewLine(msg) == Last(msg) = "\n"

\* what get() puts before a message: the head at the start of a line, a
\* line break and the head when another stream breaks into a line
Before(stream_name, line_head) ==
    IF _on_new_line THEN <<line_head>>
    ELSE IF stream_name # _last_stream THEN <<Ch("\n"), line_head>>
    ELSE <<>>

\* the reader calls get(): out = ''
CallGet ==
    /\ gpc = "idle"
    /\ gpc' = "test"
    /\ out' = <<>>
    /\ UNCHANGED <<manager, streams, _on_new_line, _last_stream, got, wrote, process, drivers>>

\* get(): one step of the loop, or the return
Get ==
    /\ gpc # "idle"
    /\ CASE gpc = "test" ->
              IF sq_queue # <<>>
              THEN \* while not self.queue.empty()
                   /\ gpc' = "get"
                   /\ UNCHANGED <<sq_queue, last_read_ts, _on_new_line,
                                  _last_stream, out, got>>
              ELSE \* self.last_read_ts.value = time.time(); return out
                   /\ gpc' = "idle"
                   /\ last_read_ts' = now
                   /\ got' = got \o out
                   /\ UNCHANGED <<sq_queue, _on_new_line, _last_stream, out>>
         [] OTHER ->
              \* timestr, stream_name, msg = self.queue.get()
              /\ sq_queue # <<>>
              /\ LET m == Head(sq_queue)
                     line_head == LineHead(m.ts, m.stream_name)
                 IN  /\ out' = out \o Before(m.stream_name, line_head)
                                   \o Body(m.msg, line_head)
                     /\ _on_new_line' = OnNewLine(m.msg)
                     /\ _last_stream' = m.stream_name
              /\ sq_queue' = Tail(sq_queue)
              /\ gpc' = "test"
              /\ UNCHANGED <<last_read_ts, got>>
    /\ UNCHANGED <<manager, initial_streams, sys_stdout, sys_stderr, now,
                   terminal, slog, before, wrote, process, drivers>>

\* ------------------------------------------------------- set_mp_method
\* method: one of 'fork', 'spawn', 'forkserver'
Methods == {"fork", "spawn", "forkserver"}

\* the start method multiprocessing takes when it is used before one is set
DefaultMethod == "fork"

\* number of set_mp_method calls in one behaviour
MaxMp == 3

\* Refused of a set_start_method that never refuses
Refused_never(force) == FALSE

\* mp.set_start_method raises RuntimeError(MP_ERR): the context has
\* already been set and force is false
Refused(force) == mp_method # NoMethod /\ ~force

\* the process uses multiprocessing (a queue, a lock, a process) and so
\* fixes the start method if none is set
UseMp ==
    /\ mp_method = NoMethod
    /\ mp_method' = DefaultMethod
    /\ UNCHANGED <<manager, streams, reader, wrote, mp_res, singleton,
                   qprocess, parent, drivers>>

\* set_mp_method(method, force)
SetMp(method, force) ==
    /\ mp_res.n < MaxMp
    /\ mp_method' = IF Refused(force)
                    THEN \* except RuntimeError as err: args == (MP_ERR, )
                         mp_method
                    ELSE method
    /\ mp_res' = [n |-> mp_res.n + 1, method |-> method, force |-> force,
                  kind |-> IF mp_method' # method
                           THEN \* raise RuntimeError('unexpected ...')
                                "RuntimeError"
                           ELSE "return"]
    /\ UNCHANGED <<manager, streams, reader, wrote, singleton, qprocess, parent, drivers>>

\* ---------------------------------------------------- get_stream_queue
\* number of get_stream_queue calls in one behaviour
MaxInst == 3

\* InstanceMissing of a get_stream_queue that does not look
InstanceMissing_always == TRUE

\* if StreamQueue.instance is None
InstanceMissing == instance = NoInstance

\* the body of get_stream_queue()
get_stream_queue ==
    /\ IF InstanceMissing
       THEN \* StreamQueue.instance = StreamQueue()
            /\ nmade' = nmade + 1
            /\ instance' = nmade + 1
       ELSE UNCHANGED <<nmade, instance>>
    /\ returned' = Append(returned, instance')

\* get_stream_queue()
GetStreamQueue ==
    /\ Len(returned) < MaxInst
    /\ get_stream_queue
    /\ UNCHANGED <<manager, streams, reader, wrote, context, qprocess, parent, drivers>>

\* ------------------------------------------------------- QcodesProcess
\* what print_exc() writes to sys.stderr
TracebackText == <<"e", "\n">>

\* QcodesProcess(name=process_name, queue_streams=qs) made where
\* in_notebook() is nb, and started
NewProcess(process_name, qs, nb) ==
    /\ rpc = "new"
    /\ rpc' = "run"
    /\ name' = process_name
    /\ queue_streams' = qs
    /\ IF qs /\ nb
       THEN /\ get_stream_queue
            /\ stream_queue' = instance'
       ELSE /\ stream_queue' = NoInstance
            /\ UNCHANGED singleton
    /\ UNCHANGED <<manager, streams, reader, wrote, context, rlog, parent, drivers>>

\* run(): if self.stream_queue: self.stream_queue.connect(str(self.name))
RunConnect ==
    /\ rpc = "run"
    /\ IF stream_queue # NoInstance
       THEN /\ connect(name)
            /\ rpc' = IF AlreadyConnected THEN "done" ELSE "target"
            /\ rlog' = Append(rlog, IF AlreadyConnected THEN "connect raises"
                                    ELSE "connect")
       ELSE /\ rpc' = "target"
            /\ UNCHANGED <<initial_streams, sys_stdout, sys_stderr, slog,
                           before, rlog>>
    /\ UNCHANGED <<manager, sq_queue, last_read_ts, now, terminal, reader, wrote,
                   context, singleton, name, queue_streams, stream_queue, parent, drivers>>

\* super().run(): the target returns or raises
TargetEnds(raises) ==
    /\ rpc = "target"
    /\ rpc' = IF raises THEN "except" ELSE "finally"
    /\ rlog' = Append(rlog, IF raises THEN "target raises" ELSE "target returns")
    /\ UNCHANGED <<manager, streams, reader, wrote, context, singleton, name,
                   queue_streams, stream_queue, parent, drivers>>

\* except: print_exc(), which writes to sys.stderr; the write may fail
RunExcept ==
    /\ rpc = "except"
    /\ rpc' = "finally"
    /\ rlog' = Append(rlog, "print_exc")
    /\ IF sys_stderr.kind = "_SQWriter"
       THEN \E fault \in {"none", "put"} : SQWrite(sys_stderr, TracebackText, fault)
       ELSE UNCHANGED <<sq_queue, terminal, sys_stdout, sys_stderr, wrote>>
    /\ UNCHANGED <<manager, initial_streams, last_read_ts, now, slog, before,
                   reader, context, singleton, name, queue_streams, stream_queue,
                   parent, drivers>>

\* RunFinally of a run() that leaves the streams as they are
RunFinally_forgets ==
    /\ rpc = "finally"
    /\ rpc' = "done"
    /\ UNCHANGED <<manager, streams, reader, wrote, context, singleton, name,
                   queue_streams, stream_queue, rlog, parent, drivers>>

\* finally: if (self.stream_queue and
\*              self.stream_queue.initial_streams is not None): disconnect()
RunFinally ==
    /\ rpc = "finally"
    /\ rpc' = "done"
    /\ IF stream_queue # NoInstance /\ initial_streams # NoStreams
       THEN /\ disconnect
            /\ rlog' = Append(rlog, "disconnect")
       ELSE UNCHANGED <<initial_streams, sys_stdout, sys_stderr, slog, rlog>>
    /\ UNCHANGED <<manager, sq_queue, last_read_ts, now, terminal, before, reader,
                   wrote, context, singleton, name, queue_streams, stream_queue,
                   parent, drivers>>

\* ------------------------------------------- the end of the parent process
\* the process that started the servers exits: multiprocessing ends its
\* daemonic children, which every QcodesProcess is by default
ParentExits ==
    /\ gone = "no"
    /\ gone' = "exit"
    /\ reaped' = live
    /\ live' = {}
    /\ UNCHANGED <<chans, query_lock, pc, locals, outcome, ncalls, worker, rput,
                   elapsed, hist, nstarted, _server, closed, notices, start_live,
                   streams, reader, wrote, context, singleton, qprocess, drivers>>

\* the process that started the servers is killed: no exit code of it runs
ParentKilled ==
    /\ gone = "no"
    /\ gone' = "killed"
    /\ UNCHANGED <<manager, streams, reader, wrote, context, singleton,
                   qprocess, reaped, drivers>>

\* --------------------------------------------------------- specifications
\* total number of calls in the specifications with concurrent callers or
\* a clock, whose state space grows fastest
MaxShort == 2

Args == {"5", "x"}

\* the steps of ask()
AskSteps(c) ==
    \/ AskAcquire(c)
    \/ AskClear(c)
    \/ AskPut(c)
    \/ AskRecv(c)
    \/ AskMore(c)
    \/ CheckForErrors(c)

\* two callers at once, one using ask() and the other write(); the server
\* may fail
Next ==
    \/ CallAsk("c1", Args, {0}, MaxShort)
    \/ CallWrite("c2", Args, MaxShort)
    \/ \E c \in Callers : WritePut(c)
    \/ \E c \in Callers : AskSteps(c)
    \/ WorkerGet
    \/ WorkerRespond
    \/ WorkerFail

Spec == Init /\ [][Next]_vars

\* one caller, ask() only, a server that answers every request once and
\* never fails
NextFifo ==
    \/ CallAsk("c1", {"1", "2", "5"}, {0}, MaxCalls)
    \/ AskSteps("c1")
    \/ WorkerGet
    \/ WorkerRespond

SpecFifo == Init /\ [][NextFifo]_vars

\* several callers, ask() only; the server may fail
NextAsk ==
    \/ \E c \in Callers : CallAsk(c, Args, {0}, MaxCalls)
    \/ \E c \in Callers : AskSteps(c)
    \/ WorkerGet
    \/ WorkerRespond
    \/ WorkerFail

SpecAsk == Init /\ [][NextAsk]_vars

\* one caller issuing ask() and write() one after the other; the server may
\* fail and may over-produce
NextSeq ==
    \/ CallAsk("c1", Args, {0}, MaxCalls)
    \/ CallWrite("c1", Args, MaxCalls)
    \/ WritePut("c1")
    \/ AskSteps("c1")
    \/ WorkerGet
    \/ WorkerRespond
    \/ WorkerExtra
    \/ WorkerFail

SpecSeq == Init /\ [][NextSeq]_vars

\* the same caller with a server that answers each request once or fails,
\* where the caller, once inside a call, and the server keep being scheduled:
\* each takes its next step if that step stays possible
NextSeqFair ==
    \/ CallAsk("c1", Args, {0}, MaxCalls)
    \/ CallWrite("c1", Args, MaxCalls)
    \/ WritePut("c1")
    \/ AskSteps("c1")
    \/ WorkerGet
    \/ WorkerRespond
    \/ WorkerFail

SpecSeqFair ==
    /\ Init
    /\ [][NextSeqFair]_vars
    /\ WF_vars(WritePut("c1") \/ AskSteps("c1"))
    /\ WF_vars(WorkerGet \/ WorkerRespond \/ WorkerFail)

\* one caller using ask() with a timeout argument, and a clock
Timeouts == {0, 1, 2}

NextTimed ==
    \/ CallAsk("c1", Args, Timeouts, MaxShort)
    \/ AskSteps("c1")
    \/ WorkerGet
    \/ WorkerRespond
    \/ WorkerFail
    \/ Tick

SpecTimed == Init /\ [][NextTimed]_vars

\* a process connects to the stream queue, writes and disconnects; the
\* stream queue is used inside a notebook, whose kernel may have put its own
\* streams in place of the interpreter's before the process connects
InitStream ==
    /\ InitManager
    /\ InitProcess
    /\ InitDrivers
    /\ \E o \in {StdOut, File("kernel stdout")},
          e \in {StdErr, File("kernel stderr")} : InitStreams(o, e)

NextStream ==
    \/ \E process_name \in ProcessNames : Connect(process_name)
    \/ Disconnect
    \/ Write
    \/ Flush
    \/ Tock

SpecStream == InitStream /\ [][NextStream]_vars

\* number of writer calls and the run of the clock in the specification of
\* get()
MaxChunks == 3
MaxGetTime == 1

\* the texts written in the specification of get(): with and without a
\* line end, and two lines in one message
GetMsgs == {<<"a">>, <<"a", "\n">>, <<"a", "\n", "b">>}

\* processes connected as A and as B write while a reader calls get()
NextGet ==
    \/ WriteFrom(ProcessNames, GetMsgs, MaxChunks)
    \/ CallGet
    \/ Get
    \/ Clock(MaxGetTime)

SpecGet == Init /\ [][NextGet]_vars

\* number of writer calls in the specification of the mirror
MaxMirror == 2

\* a process connected as A writes, time passes and a reader calls get()
NextMirror ==
    \/ WriteFrom({<<"A">>}, Msgs, MaxMirror)
    \/ CallGet
    \/ Get
    \/ Clock(MaxTime)

SpecMirror == Init /\ [][NextMirror]_vars

\* one process uses multiprocessing, sets the start method, asks for the
\* stream queue and makes a QcodesProcess
NextProcess ==
    \/ UseMp
    \/ \E method \in Methods, force \in BOOLEAN : SetMp(method, force)
    \/ GetStreamQueue
    \/ \E process_name \in ProcessNames, qs \in BOOLEAN, nb \in BOOLEAN :
          NewProcess(process_name, qs, nb)

SpecProcess == Init /\ [][NextProcess]_vars

\* a QcodesProcess is made and runs its target, which writes and returns
\* or raises
NextRun ==
    \/ \E process_name \in ProcessNames, qs \in BOOLEAN, nb \in BOOLEAN :
          NewProcess(process_name, qs, nb)
    \/ RunConnect
    \/ (rpc = "target" /\ Write)
    \/ \E raises \in BOOLEAN : TargetEnds(raises)
    \/ RunExcept
    \/ RunFinally

SpecRun == InitStream /\ [][NextRun]_vars

\* number of calls in the specification of the parent's end
MaxExit == 2

\* the parent writes to its server and ends, in order or killed
NextExit ==
    \/ (gone = "no" /\ CallWrite("c1", Args, MaxExit))
    \/ (gone = "no" /\ WritePut("c1"))
    \/ (gone = "no" /\ CheckForErrors("c1"))
    \/ WorkerGet
    \/ WorkerRespond
    \/ WorkerFail
    \/ ParentExits
    \/ ParentKilled

SpecExit == Init /\ [][NextExit]_vars

\* number of calls in the specification of the errors raised
MaxErr == 2

\* the queries of that specification: the server fails on all but "5",
\* each time with an exception of another type
ErrArgs == {"5", "x", "u", "s", "k"}

\* one caller; the server fails in several ways
NextErr ==
    \/ CallAsk("c1", ErrArgs, {0}, MaxErr)
    \/ CallWrite("c1", ErrArgs, MaxErr)
    \/ WritePut("c1")
    \/ AskSteps("c1")
    \/ WorkerGet
    \/ WorkerRespond
    \/ WorkerFail

SpecErr == Init /\ [][NextErr]_vars

\* two callers at once, both using write(); the server may fail
NextWriters ==
    \/ \E c \in Callers : CallWrite(c, Args, MaxShort)
    \/ \E c \in Callers : WritePut(c)
    \/ \E c \in Callers : CheckForErrors(c)
    \/ WorkerGet
    \/ WorkerRespond
    \/ WorkerFail

SpecWriters == Init /\ [][NextWriters]_vars

\* ------------------------------------------------------- the Galil arm
\* number of calls of the arm's methods
MaxArm == 3

\* the methods of Arm that begin with an assertion on the head status
ArmGuarded == {"set_current_position_as_begin", "set_current_position_as_end",
               "move_arm_head_to_begin", "move_arm_head_to_next_row"}

\* the two moves made of a lift, a travel, an alignment and a lowering
ArmMoves == {"move_arm_head_to_begin", "move_arm_head_to_next_row"}

\* the single movements, which are methods of their own
ArmSteps == {"lift_arm_head_up", "move_arm_towards_begin",
             "move_arm_towards_next_row", "align_x_axis", "put_arm_head_down"}

\* an assertion that lets everything pass
Asserted_any(have, want) == TRUE

\* assert have == want
Asserted(have, want) == have = want

\* how a movement goes, which the positions the controller reports decide:
\* "done" (the positions are the computed ones), "off" (they are not), and
\* for the movements that divide by a coordinate "fault" (it is zero)
Hows(step) ==
    IF step \in {"align_x_axis", "put_arm_head_down"} THEN {"done", "off"}
    ELSE IF step \in ArmSteps THEN {"done", "off", "fault"}
    ELSE {"done"}

\* one movement: the head status, row and error it ends with and the
\* number n of commands it gives to the controller (absolute_position,
\* the nine of _move, absolute_position)
StepResult(step, how) ==
    LET st == [status |-> _arm_head_status, row |-> _current_row_num,
               n |-> 0, err |-> NoType]
        moved == IF how = "off"
                 THEN [st EXCEPT !.n = 1 + 9 + 1, !.err = "AssertionError"]
                 ELSE [st EXCEPT !.n = 1 + 9 + 1, !.status = "up"]
    IN  CASE step = "lift_arm_head_up" ->
               IF how = "fault"
               THEN [st EXCEPT !.n = 1, !.err = "ZeroDivisionError"]
               ELSE moved
          [] step = "move_arm_towards_begin" ->
               IF ~_end_pos THEN [st EXCEPT !.err = "AttributeError"]
               ELSE IF how = "fault" THEN [st EXCEPT !.err = "ZeroDivisionError"]
               ELSE IF how = "off" THEN moved
               ELSE [moved EXCEPT !.row = 0]
          [] step = "move_arm_towards_next_row" ->
               IF ~_end_pos THEN [st EXCEPT !.err = "AttributeError"]
               ELSE IF _current_row_num = NoRow THEN [st EXCEPT !.err = "TypeError"]
               ELSE IF how = "fault" THEN [st EXCEPT !.err = "ZeroDivisionError"]
               ELSE IF how = "off" THEN moved
               ELSE [moved EXCEPT !.row = _current_row_num + 1]
          [] step = "align_x_axis" -> moved
          [] OTHER ->
               IF how = "off" THEN moved ELSE [moved EXCEPT !.status = "down"]

\* the head status a move asserts after a movement
StatusAfter(step) == IF step = "put_arm_head_down" THEN "down" ELSE "up"

\* the movement of a move that follows a movement
StepAfter(m, step) ==
    CASE step = "lift_arm_head_up" ->
           IF m = "move_arm_head_to_begin" THEN "move_arm_towards_begin"
           ELSE "move_arm_towards_next_row"
      [] step \in {"move_arm_towards_begin", "move_arm_towards_next_row"} ->
           "align_x_axis"
      [] step = "align_x_axis" -> "put_arm_head_down"
      [] OTHER -> "idle"

\* a method of the arm is called
ArmCall ==
    /\ apc = "idle"
    /\ ancalls < MaxArm
    /\ \E m \in ArmGuarded \cup ArmSteps :
          /\ aop' = m
          /\ apc' = IF m \in ArmGuarded THEN "assert" ELSE m
    /\ aout' = [kind |-> "none", etype |-> NoType]
    /\ sent' = 0
    /\ ancalls' = ancalls + 1
    /\ UNCHANGED <<_arm_head_status, _current_row_num, _end_pos>>
    /\ UNCHANGED <<manager, streams, reader, wrote, process, correction>>

\* the method called runs up to its next assertion, or to its end
ArmStep ==
    /\ apc # "idle"
    /\ \E how \in Hows(apc) :
          LET r == StepResult(apc, how)
              raise(etype, n) ==
                  /\ apc' = "idle"
                  /\ aout' = [kind |-> "raise", etype |-> etype]
                  /\ sent' = sent + n
              return(n) ==
                  /\ apc' = "idle"
                  /\ aout' = [kind |-> "return", etype |-> NoType]
                  /\ sent' = sent + n
          IN  IF apc = "assert"
              THEN IF ~Asserted(_arm_head_status, "down")
                   THEN /\ raise("AssertionError", 0)
                        /\ UNCHANGED <<_arm_head_status, _current_row_num, _end_pos>>
                   ELSE CASE aop = "set_current_position_as_begin" ->
                               /\ return(1)
                               /\ UNCHANGED <<_arm_head_status, _current_row_num,
                                              _end_pos>>
                          [] aop = "set_current_position_as_end" ->
                               /\ return(1)
                               /\ _end_pos' = TRUE
                               /\ UNCHANGED <<_arm_head_status, _current_row_num>>
                          [] OTHER ->
                               /\ apc' = "lift_arm_head_up"
                               /\ UNCHANGED <<_arm_head_status, _current_row_num,
                                              _end_pos, aout, sent>>
              ELSE /\ UNCHANGED _end_pos
                   /\ IF r.err # NoType
                      THEN /\ raise(r.err, r.n)
                           /\ UNCHANGED <<_arm_head_status, _current_row_num>>
                      ELSE /\ _arm_head_status' = r.status
                           /\ _current_row_num' = r.row
                           /\ IF aop \notin ArmMoves
                              THEN return(r.n)
                              ELSE IF ~Asserted(r.status, StatusAfter(apc))
                              THEN raise("AssertionError", r.n)
                              ELSE IF StepAfter(aop, apc) = "idle"
                              THEN return(r.n)
                              ELSE /\ apc' = StepAfter(aop, apc)
                                   /\ sent' = sent + r.n
                                   /\ UNCHANGED aout
    /\ UNCHANGED <<aop, ancalls>>
    /\ UNCHANGED <<manager, streams, reader, wrote, process, correction>>

NextArm ==
    \/ ArmCall
    \/ ArmStep

SpecArm == Init /\ [][NextArm]_vars

\* ------------------------------------------- the B1520A's corrections
\* number of calls of the methods of Correction
MaxCorr == 3

\* the responses of the instrument to a correction measurement: completed,
\* failed, aborted
CorrResponses == {0, 1, 2}

\* the keyword parameters of each method
Params(m) ==
    IF m = "perform_and_enable_correction" THEN {"corr", "state"} ELSE {"corr"}

\* a call of method m with the keyword arguments kwargs is accepted, and
\* raises TypeError otherwise
Accepts(m, kwargs) == kwargs \subseteq Params(m)

\* a message to the instrument
Msg(cmd, corr, state) == [cmd |-> cmd, corr |-> corr, state |-> state]

\* text of a value in a formatted string
Str(b) == IF b THEN "True" ELSE "False"

\* a method of Correction is called
CorrCall ==
    /\ kpc = "idle"
    /\ kcalls < MaxCorr
    /\ \E corr \in Corrs :
          \/ \E m \in {"enable", "disable", "is_enabled", "perform_correction"} :
                /\ kop' = [m |-> m, corr |-> corr, state |-> TRUE]
                /\ kpc' = "body"
          \/ \E state \in BOOLEAN :
                /\ kop' = [m |-> "perform_and_enable_correction", corr |-> corr,
                           state |-> state]
                /\ kpc' = "perform"
    /\ kresp' = NoResponse
    /\ klog' = <<>>
    /\ kout' = [kind |-> "none", etype |-> NoType, val |-> NoValue]
    /\ kcalls' = kcalls + 1
    /\ UNCHANGED enabled
    /\ UNCHANGED <<manager, streams, reader, wrote, process, arm>>

\* the method called runs up to its next call of another method, or to its end
CorrStep ==
    /\ kpc # "idle"
    /\ \E r \in CorrResponses :
          LET corr == kop.corr
              write(state) ==
                  /\ klog' = Append(klog, Msg("CORRST", corr, Str(state)))
                  /\ enabled' = [enabled EXCEPT ![corr] = state]
              ask(cmd) ==
                  /\ klog' = Append(klog, Msg(cmd, corr, "None"))
                  /\ UNCHANGED enabled
              return(val) ==
                  /\ kpc' = "idle"
                  /\ kout' = [kind |-> "return", etype |-> NoType, val |-> val]
          IN  CASE kpc = "body" ->
                     /\ UNCHANGED kresp
                     /\ CASE kop.m = "enable" -> write(TRUE) /\ return(NoValue)
                          [] kop.m = "disable" -> write(FALSE) /\ return(NoValue)
                          [] kop.m = "is_enabled" ->
                               /\ ask("CORRST?")
                               /\ return([NoValue EXCEPT !.enable = Str(enabled[corr])])
                          [] OTHER ->
                               /\ ask("CORR?")
                               /\ return([NoValue EXCEPT !.status = r])
                [] kpc = "perform" ->
                     /\ ask("CORR?")
                     /\ kresp' = r
                     /\ kpc' = "enable"
                     /\ UNCHANGED kout
                [] kpc = "enable" ->
                     /\ UNCHANGED kresp
                     /\ IF Accepts("enable", {"corr", "state"})
                        THEN /\ write(TRUE)
                             /\ kpc' = "query"
                             /\ UNCHANGED kout
                        ELSE /\ kpc' = "idle"
                             /\ kout' = [kind |-> "raise", etype |-> "TypeError",
                                         val |-> NoValue]
                             /\ UNCHANGED <<klog, enabled>>
                [] OTHER ->
                     /\ UNCHANGED kresp
                     /\ ask("CORRST?")
                     /\ return([status |-> kresp, enable |-> Str(enabled[corr])])
    /\ UNCHANGED <<kop, kcalls>>
    /\ UNCHANGED <<manager, streams, reader, wrote, process, arm>>

NextCorrection ==
    \/ CorrCall
    \/ CorrStep

SpecCorrection == Init /\ [][NextCorrection]_vars

\* no call is in progress
Quiet == \A c \in Callers : pc[c] = "idle"

\* number of calls in the specification of halt(), restart() and close()
MaxLife == 3

\* calls of every kind made one after the other, by the process that
\* constructed the manager or by another process that holds it; the server
\* may fail, and may be slow to take the stop query
NextLife ==
    \/ Quiet /\ \E c \in Callers : CallLife(c, LifeOps, MaxLife)
    \/ Quiet /\ \E c \in Callers : CallWrite(c, {"x"}, MaxLife)
    \/ Quiet /\ \E c \in Callers : CallAsk(c, {"5"}, {0}, MaxLife)
    \/ \E c \in Callers : WritePut(c)
    \/ \E c \in Callers : AskSteps(c)
    \/ \E c \in Callers : Halt(c)
    \/ JoinTick
    \/ \E c \in Callers : HaltReturn(c)
    \/ \E c \in Callers : Restart(c)
    \/ \E c \in Callers : Close(c)
    \/ WorkerGet
    \/ WorkerRespond
    \/ WorkerFail
    \/ WorkerCrash

SpecLife == Init /\ [][NextLife]_vars

\* ------------------------------------------------------------ properties
\* the step is one of caller c
Acts(c) == pc'[c] # pc[c]
\* the step ends c's call by returning
Returns(c) == pc[c] = "check" /\ pc'[c] = "idle" /\ outcome'[c].kind = "return"
\* the step ends c's call by raising the error read from the error queue
Raises(c) == pc[c] = "e_get" /\ pc'[c] = "idle" /\ outcome'[c].kind = "raise"
\* c holds the lock and is somewhere inside the `with` block of ask()
InAsk(c) == op[c] = "ask" /\ pc[c] \notin {"idle", "lock"}
\* every response now on the channel was put after position n
OnlyNewerThan(q, n) == \A i \in DOMAIN q : q[i].sn > n

\* C1: with one caller, ask() only and a server that answers every request
\* once and never fails, every ask() returns (none raises) the response the
\* server produced for that very query (the square of its own argument),
\* and the response channel is empty whenever no call is in progress.
C1_FifoPairing ==
    /\ \A c \in Callers :
          /\ outcome[c].kind # "raise"
          /\ outcome[c].kind = "return" =>
                /\ outcome[c].val.tag = "val"
                /\ outcome[c].val.qid = outcome[c].id
                /\ outcome[c].val.val = Square(qry[c].arg)
    /\ (\A c \in Callers : pc[c] = "idle") => response_queue = <<>>

\* the last of several ask() calls has returned the square of its argument
C1_Witness ==
    /\ outcome["c1"].kind = "return"
    /\ outcome["c1"].id = MaxCalls
    /\ outcome["c1"].val.qid = MaxCalls
    /\ outcome["c1"].val.val = 25

\* C2: with several callers of ask(), whoever is inside an exchange holds
\* the pairing lock, so at most one caller is between sending its query and
\* reading its response, and a value returned by ask() is the response to
\* the caller's own query.
C2_MutualExclusion ==
    /\ \A c \in Callers : InAsk(c) => query_lock = c
    /\ Cardinality({c \in Callers : InAsk(c)}) <= 1
    /\ \A c \in Callers :
          outcome[c].kind = "return" => outcome[c].val.qid = outcome[c].id

\* one caller waits for its response while the other waits for the lock
C2_Witness ==
    \E c, d \in Callers :
        /\ c # d
        /\ pc[c] = "recv"
        /\ query_lock = c
        /\ pc[d] = "lock"

\* C3 (as claimed): write() is covered by the pairing lock: while another
\* caller holds the lock for its ask(), no step of a write() removes a
\* response from the response channel or a record from the error channel.
C3_WriteUnderLock ==
    [][\A c \in Callers :
          (op[c] = "write" /\ Acts(c) /\ query_lock \notin {NoOwner, c}) =>
              /\ response_queue' = response_queue
              /\ error_queue' = error_queue]_vars

\* C3 (amended): write() runs outside the pairing lock, which serializes
\* ask() exchanges only: no step of a write() acquires or releases the lock,
\* which stays with the caller inside ask();
\* a write() that finds the error channel empty ends at once and leaves the
\* response and error channels as they are; it removes responses or an error
\* record, also while another caller's ask() is in flight, only after it has
\* found the error channel non-empty.
C3_WriteOutsideLock ==
    /\ [][\A c \in Callers :
            (op[c] = "write" /\ Acts(c)) =>
                /\ query_lock' = query_lock
                /\ (pc[c] = "check" /\ error_queue = <<>>) =>
                      /\ Returns(c)
                      /\ response_queue' = response_queue
                      /\ error_queue' = error_queue
                /\ (response_queue' # response_queue \/ error_queue' # error_queue) =>
                      pc[c] \in {"e_drain_get", "e_get"}]_vars
    /\ [](\A c \in Callers : InAsk(c) => query_lock = c)

\* while one caller waits for the response to its ask(), a write() of the
\* other caller has found an error record and is about to take it
C3_Witness ==
    \E c, d \in Callers :
        /\ c # d
        /\ query_lock = c
        /\ pc[c] = "recv"
        /\ op[d] = "write"
        /\ pc[d] = "e_get"
        /\ error_queue # <<>>

\* C4: a caller blocked in ask() waiting for the response has waited no
\* longer than its timeout.
C4_BoundedWait ==
    \A c \in Callers : pc[c] = "recv" => elapsed[c] <= timeout[c]

C6_ErrorPriority ==
    /\ [][\A c \in Callers :
          Acts(c) =>
              /\ (pc[c] = "check" /\ error_queue # <<>>) => pc'[c] = "e_drain"
              /\ pc[c] \in {"e_drain", "e_drain_get", "e_get"} =>
                    \/ pc'[c] \in {"e_drain", "e_drain_get", "e_get"}
                    \/ Raises(c)
              /\ Raises(c) => OnlyNewerThan(response_queue', mark[c])]_vars
    /\ \A c \in Callers :
          (pc[c] = "check" /\ error_queue # <<>>) ~>
              (pc[c] = "idle" /\ outcome[c].kind = "raise")

\* an ask() that had read the regular response to its own query, and no
\* sentinel, has raised the error
C6_Witness ==
    \E c \in Callers :
        /\ pc[c] = "idle"
        /\ outcome[c].op = "ask"
        /\ outcome[c].kind = "raise"
        /\ ~sawErr[c]
        /\ res[c].tag = "val"
        /\ res[c].qid = qry[c].id

\* C7: an ask() that has returned did not return SERVER_ERR, and none of the
\* responses it read during the call, stale or fresh, was SERVER_ERR.
C7_NoSentinelReturned ==
    \A c \in Callers :
        (outcome[c].op = "ask" /\ outcome[c].kind = "return") =>
            /\ outcome[c].val.tag # SERVER_ERR
            /\ ~sawErr[c]

\* an ask() that cleared a stale sentinel and then read only regular
\* responses has raised
C7_Witness ==
    \E c \in Callers :
        /\ outcome[c].op = "ask"
        /\ outcome[c].kind = "raise"
        /\ sawErr[c]
        /\ reads[c] # <<>>
        /\ \A i \in DOMAIN reads[c] : reads[c][i].tag = "val"

\* C8: the value ask() returns is never the response to an earlier query.
C8_NoStaleAnswer ==
    \A c \in Callers :
        (outcome[c].op = "ask" /\ outcome[c].kind = "return") =>
            outcome[c].val.qid = outcome[c].id

\* C9: when ask() returns, the value is the last response it read after
\* sending the query, and nothing that was put on the response channel
\* before its loop found the channel empty is left there: if the server has
\* put nothing since, the channel is empty.
C9_KeepsLast ==
    [][\A c \in Callers :
          (op[c] = "ask" /\ Returns(c)) =>
              /\ reads[c] # <<>>
              /\ outcome'[c].val = Last(reads[c])
              /\ OnlyNewerThan(response_queue', mark[c])
              /\ rput = mark[c] => response_queue' = <<>>]_vars

\* the server put two responses for the query; ask() read both, returned
\* the second and left the channel empty
C9_Witness ==
    \E c \in Callers :
        /\ outcome[c].op = "ask"
        /\ outcome[c].kind = "return"
        /\ Len(reads[c]) = 2
        /\ \A i \in DOMAIN reads[c] : reads[c][i].qid = outcome[c].id
        /\ outcome[c].val = reads[c][2]
        /\ response_queue = <<>>

\* C10: write() puts its query on the request channel in one step, which
\* changes nothing else, and in no other step; with the error channel empty
\* at its check it returns at once, changing no channel; neither step waits
\* for anything.
C10_WriteFrame ==
    /\ [][\A c \in Callers :
            (op[c] = "write" /\ Acts(c)) =>
                /\ pc[c] = "w_put" =>
                      /\ query_queue' = Append(query_queue, qry[c])
                      /\ response_queue' = response_queue
                      /\ error_queue' = error_queue
                      /\ pc'[c] = "check"
                /\ pc[c] # "w_put" => query_queue' = query_queue
                /\ (pc[c] = "check" /\ error_queue = <<>>) =>
                      /\ Returns(c)
                      /\ response_queue' = response_queue
                      /\ error_queue' = error_queue]_vars
    /\ [](\A c \in Callers :
            /\ pc[c] = "w_put" => ENABLED WritePut(c)
            /\ (op[c] = "write" /\ pc[c] = "check") => ENABLED CheckForErrors(c))

\* a write() has returned normally and its query is on the request channel
\* once, before the server has read it
C10_Witness ==
    \E c \in Callers :
        /\ outcome[c].op = "write"
        /\ outcome[c].kind = "return"
        /\ Cardinality({i \in DOMAIN query_queue :
                           query_queue[i].id = outcome[c].id}) = 1
        /\ wcur.id # outcome[c].id

Ends(c) == pc[c] # "idle" /\ pc'[c] = "idle"

\* C12: halt() never raises to its caller: a call of halt() that has ended
\* has returned normally, whatever the channels held and whatever the
\* server did.
C12_HaltNeverRaises ==
    \A c \in Callers :
        (outcome[c].op = "halt" /\ pc[c] = "idle") => outcome[c].kind = "return"

\* C13: after a call of halt() made by the process that started the server
\* has ended, the server process is not alive.
C13_StoppedAfterHalt ==
    (outcome[Main].op = "halt" /\ pc[Main] = "idle") => _server \notin live

\* C14: no step of a halt() called when the server had already stopped puts
\* a query (the call never enters write), changes a channel, ends a process,
\* prints the notice or raises, and the call is never kept waiting: it
\* returns.
C14_HaltStoppedNoop ==
    /\ [][\A c \in Callers :
            (op[c] = "halt" /\ pc[c] # "idle" /\ _server \notin start_live[c]
                /\ Acts(c)) =>
                /\ chans' = chans
                /\ live' = live
                /\ notices' = notices
                /\ pc'[c] \notin {"w_put", "check"}
                /\ outcome'[c].kind # "raise"
                /\ Ends(c) => outcome'[c].kind = "return"]_vars
    /\ [](\A c \in Callers :
            (op[c] = "halt" /\ _server \notin start_live[c] /\ pc[c] # "idle") =>
                ENABLED (Halt(c) \/ HaltReturn(c)))

\* a halt() of the owning process has returned on a server that an earlier
\* halt() had stopped, with a query still waiting on the request channel
C14_Witness ==
    /\ pc[Main] = "idle"
    /\ outcome[Main].op = "halt"
    /\ outcome[Main].kind = "return"
    /\ _server \notin start_live[Main]
    /\ nstarted = 1
    /\ query_queue # <<>>

\* C15: the step that ends a restart() called by the owning process on a
\* manager that has not been closed leaves exactly one live server process,
\* a new one, with the three channels as they were, and the process that
\* was the server before is not alive.
C15_RestartFresh ==
    [][(op[Main] = "restart" /\ ~closed[Main] /\ Ends(Main)) =>
          /\ live' = {_server'}
          /\ _server' # _server
          /\ _server \notin live']_vars

C17_CloseIrreversible ==
    closed[Main] => live = {}

StreamCall == Len(slog') > Len(slog)

\* C19: connect() on a connected stream queue and disconnect() on one that
\* is not connected raise, and a call that raises leaves the saved streams
\* (and with them the connected/disconnected state) and sys.stdout and
\* sys.stderr as they were.
C19_MisuseRaises ==
    [][StreamCall =>
          /\ (Last(slog').op = "connect" /\ initial_streams # NoStreams) =>
                Last(slog').kind = "raise"
          /\ (Last(slog').op = "disconnect" /\ initial_streams = NoStreams) =>
                Last(slog').kind = "raise"
          /\ Last(slog').kind = "raise" =>
                /\ initial_streams' = initial_streams
                /\ sys_stdout' = sys_stdout
                /\ sys_stderr' = sys_stderr
                /\ sq_queue' = sq_queue]_vars

\* a disconnect() before any connect() has raised, and so has a second
\* connect(); the writers of the first connect() are still in place
C19_Witness ==
    /\ slog = <<[op |-> "disconnect", kind |-> "raise"],
                [op |-> "connect", kind |-> "return"],
                [op |-> "connect", kind |-> "raise"]>>
    /\ sys_stdout.kind = "_SQWriter"
    /\ sys_stderr = _SQWriter(ErrName(sys_stdout.name))
    /\ initial_streams = before

\* C20: a disconnect() on a connected stream queue returns, puts back as
\* sys.stdout and sys.stderr the streams that were active just before the
\* connect(), whatever was written in between, and leaves the stream queue
\* disconnected; a connect() on a disconnected stream queue succeeds.
C20_ConnectDisconnect ==
    [][StreamCall =>
          /\ (Last(slog').op = "disconnect" /\ initial_streams # NoStreams) =>
                /\ Last(slog').kind = "return"
                /\ sys_stdout' = before[1]
                /\ sys_stderr' = before[2]
                /\ initial_streams' = NoStreams
          /\ (Last(slog').op = "connect" /\ initial_streams = NoStreams) =>
                /\ Last(slog').kind = "return"
                /\ initial_streams' # NoStreams
                /\ sys_stdout'.kind = "_SQWriter"
                /\ sys_stderr'.kind = "_SQWriter"]_vars

\* a process of a notebook kernel connected as A, wrote, disconnected and
\* got the kernel's streams back, and has connected again as B
C20_Witness ==
    /\ slog = <<[op |-> "connect", kind |-> "return"],
                [op |-> "disconnect", kind |-> "return"],
                [op |-> "connect", kind |-> "return"]>>
    /\ sq_queue # <<>>
    /\ sq_queue[1].stream_name = <<"A">>
    /\ before = <<File("kernel stdout"), File("kernel stderr")>>
    /\ initial_streams = before
    /\ sys_stdout = _SQWriter(<<"B">>)

\* ---------------------------------------------------- properties of get()
\* what the get() calls have returned and the call in progress has built
Read == got \o (IF gpc = "idle" THEN <<>> ELSE out)

\* the characters of a text of get(), its line heads removed
RECURSIVE Chars(_)
Chars(text) ==
    IF text = <<>> THEN <<>>
    ELSE (IF Head(text).kind = "head" THEN <<>> ELSE <<Head(text).ch>>)
         \o Chars(Tail(text))

\* the texts of a sequence of message tuples, one after the other
RECURSIVE Concat(_)
Concat(q) == IF q = <<>> THEN <<>> ELSE Head(q).msg \o Concat(Tail(q))

\* the texts of a sequence of message tuples, one after the other, with a
\* line break wherever a stream writes into the unfinished line of another
RECURSIVE Joined(_, _, _)
Joined(q, nl, last) ==
    IF q = <<>> THEN <<>>
    ELSE LET m == Head(q)
         IN  (IF ~nl /\ m.stream_name # last THEN <<"\n">> ELSE <<>>)
             \o m.msg \o Joined(Tail(q), Last(m.msg) = "\n", m.stream_name)

\* number of messages the reader has taken off the queue
Taken == Len(written) - Len(sq_queue)

\* C21 as stated: with the line heads removed, what get() has returned
\* and what is still queued is exactly what was written, in order, nothing
\* added.
C21_NothingAdded == Chars(Read) \o Concat(sq_queue) = Concat(written)

\* C21: the queue holds the messages written and not yet taken, in order;
\* with the line heads removed, what get() has returned is the texts of
\* the messages taken, in order, each once, with one line break added
\* wherever a stream writes into the unfinished line of another; and the
\* queue is empty when a get() returns.
C21_ChunksInOrder ==
    /\ [](/\ Taken >= 0
          /\ sq_queue = SubSeq(written, Taken + 1, Len(written))
          /\ Chars(Read) = Joined(SubSeq(written, 1, Taken), TRUE, NoStream))
    /\ [][gpc # "idle" /\ gpc' = "idle" => sq_queue' = <<>>]_vars

\* A wrote the start of a line and B wrote into it; three messages went
\* through get() calls, the last after the clock had moved, and the text
\* returned is longer than the texts written
C21_Witness ==
    /\ gpc = "idle"
    /\ sq_queue = <<>>
    /\ Len(written) = 3
    /\ written[1].stream_name = <<"A">>
    /\ written[1].msg = <<"a">>
    /\ written[2].stream_name = <<"B">>
    /\ last_read_ts = 1
    /\ Len(Chars(got)) = Len(Concat(written)) + 1

\* C22: when get() takes a message off the queue, it puts the line head
\* with the message's own time and stream name first if the message before
\* it (taken by this get() or an earlier one) ended its line or there was
\* none; a line break and that line head first if the message before it
\* left its line unfinished and came from another stream; and no line head
\* before the text if it continues the unfinished line of its own stream.
\* Every line head put with a message carries that message's stream name.
C22_HeaderRule ==
    [][gpc = "get" /\ gpc' = "test" =>
          LET m == Head(sq_queue)
              line_head == LineHead(m.ts, m.stream_name)
              newline == IF Taken = 0 THEN TRUE
                         ELSE Last(written[Taken].msg) = "\n"
              other == IF Taken = 0 THEN FALSE
                       ELSE written[Taken].stream_name # m.stream_name
              added == SubSeq(out', Len(out) + 1, Len(out'))
          IN  /\ m = written[Taken + 1]
              /\ IF newline THEN added[1] = line_head
                 ELSE IF other
                      THEN added[1] = Ch("\n") /\ added[2] = line_head
                      ELSE added[1] = Ch(m.msg[1])
              /\ \A i \in 1..Len(added) :
                    added[i].kind = "head" => added[i] = line_head]_vars

\* one get() returned the start of a line with its line head; the next
\* get() has taken the rest of the line, written by the same stream, and
\* put no line head before it
C22_Witness ==
    /\ Len(got) = 2
    /\ got[1].kind = "head"
    /\ got[2] = Ch("a")
    /\ gpc = "test"
    /\ out = <<Ch("a"), Ch("\n")>>
    /\ Len(written) = 2
    /\ written[2].stream_name = written[1].stream_name

\* ------------------------------------------ properties of QcodesProcess
\* a step of run()
RunStep ==
    \/ RunConnect
    \/ \E raises \in BOOLEAN : TargetEnds(raises)
    \/ RunExcept
    \/ RunFinally

\* run() has connected the stream queue before the target started, keeps
\* it connected until the target has ended and an exception that escaped
\* it has been printed, then disconnects; no step of run() waits
Scoped ==
    /\ rpc = "run" => rlog = <<>>
    /\ rpc \in {"target", "except", "finally"} =>
          /\ rlog # <<>>
          /\ rlog[1] = "connect"
          /\ initial_streams # NoStreams
          /\ slog = <<[op |-> "connect", kind |-> "return"]>>
    /\ rpc = "target" => sys_stdout = _SQWriter(name) \/ sys_stdout = StdOut
    /\ rpc = "done" =>
          /\ rlog \in {<<"connect", "target returns", "disconnect">>,
                       <<"connect", "target raises", "print_exc", "disconnect">>}
          /\ initial_streams = NoStreams
          /\ slog = <<[op |-> "connect", kind |-> "return"],
                      [op |-> "disconnect", kind |-> "return"]>>
          /\ <<sys_stdout, sys_stderr>> = before
    /\ rpc \in {"run", "target", "except", "finally"} => ENABLED RunStep

WriterCall == Len(wlog') > Len(wlog)

\* C24: when write() fails, sys.stdout and sys.stderr are, as the failure
\* leaves write(), the streams that were active just before the connect()
\* that put the writer in place.
C24_RestoresOriginal ==
    [][(WriterCall /\ Last(wlog').kind = "raise") =>
          /\ sys_stdout' = before[1]
          /\ sys_stderr' = before[2]]_vars

\* C26: write('') and flush() return and change neither the queue, the
\* terminal, the streams of the process nor the time of the last read; a
\* write() of a non-empty text whose put does not fail makes the queue
\* exactly one message longer, and that message carries the time of the
\* write, the name of the writer that was called and the text; a write()
\* whose put fails leaves the queue as it was.
C26_WriteFrame ==
    [][WriterCall =>
          LET c == Last(wlog')
              w == IF sys_stdout.kind = "_SQWriter" /\ sys_stdout.name = c.name
                   THEN sys_stdout ELSE sys_stderr
          IN  /\ w = _SQWriter(c.name)
              /\ (c.op = "flush" \/ c.msg = <<>>) =>
                    /\ c.kind = "return"
                    /\ UNCHANGED <<sq_queue, terminal, sys_stdout, sys_stderr,
                                   initial_streams, last_read_ts, written>>
              /\ (c.op = "write" /\ c.msg # <<>>) =>
                    /\ sq_queue' \in {sq_queue,
                                      Append(sq_queue, [ts |-> now,
                                                        stream_name |-> w.name,
                                                        msg |-> c.msg])}
                    /\ sq_queue' = sq_queue => c.kind = "raise"
                    /\ UNCHANGED <<initial_streams, last_read_ts>>]_vars

\* the process connected as B has written a line to its sys.stderr: the
\* queue holds that one message under the name of that writer
C26_Witness ==
    /\ Len(wlog) = 1
    /\ wlog[1] = [op |-> "write", kind |-> "return", name |-> <<"B", " ERR">>,
                  msg |-> <<"a", "\n">>]
    /\ Len(sq_queue) = 1
    /\ sq_queue[1].stream_name = <<"B", " ERR">>
    /\ sq_queue[1].msg = <<"a", "\n">>
    /\ sys_stderr = _SQWriter(<<"B", " ERR">>)

\* C27: a write() of a non-empty text prints one line to the terminal
\* exactly when more than MIN_READ_TIME has passed since the time of the
\* last read and the text is not a bare line end, and the line is the
\* message without its final line end; printed or not, the message is put
\* on the queue once; the time of the last read changes only in the step
\* in which a get() returns, and becomes the time of that step.
C27_Mirror ==
    [][/\ (WriterCall /\ Last(wlog').msg # <<>>) =>
             LET c == Last(wlog')
                 msgtuple == [ts |-> now, stream_name |-> c.name, msg |-> c.msg]
                 late == now - last_read_ts >= MIN_READ_TIME + 1
                 bare == c.msg = <<"\n">>
             IN  /\ sq_queue' = Append(sq_queue, msgtuple)
                 /\ IF late /\ ~bare
                    THEN /\ Len(terminal') = Len(terminal) + 1
                         /\ Last(terminal').ts = now
                         /\ Last(terminal').stream_name = c.name
                         /\ Last(terminal').msg \in {c.msg, SubSeq(c.msg, 1, Len(c.msg) - 1)}
                         /\ Last(Last(terminal').msg) # "\n"
                    ELSE terminal' = terminal
       /\ last_read_ts' # last_read_ts =>
             /\ gpc = "test"
             /\ gpc' = "idle"
             /\ last_read_ts' = now]_vars

\* a line written long after the queue was made was printed to the
\* terminal; a get() then read the queue, and the next line, written at
\* once after it, was not printed; both went through the queue
C27_Witness ==
    /\ Len(written) = 2
    /\ Len(terminal) = 1
    /\ terminal[1].ts = written[1].ts
    /\ terminal[1].msg = <<"a">>
    /\ written[1].msg = <<"a", "\n">>
    /\ last_read_ts = written[2].ts
    /\ written[2].msg = <<"a">>
    /\ sq_queue = <<written[2]>>
    /\ got # <<>>

\* ------------------------------------------- properties of the process
\* C28: every get_stream_queue() so far, those of QcodesProcess.__init__
\* included, has returned the same instance, the only one ever made, and
\* it is still StreamQueue.instance.
C28_OneInstance ==
    /\ nmade <= 1
    /\ \A i \in 1..Len(returned) :
          /\ returned[i] # NoInstance
          /\ returned[i] = returned[1]
          /\ returned[i] = instance
    /\ stream_queue \in {NoInstance, instance}
    /\ nmade = 0 <=> instance = NoInstance

\* get_stream_queue() was called three times and a QcodesProcess was made
\* with queue_streams in a notebook: one instance was made
C28_Witness ==
    /\ Len(returned) = 4
    /\ nmade = 1
    /\ stream_queue = 1
    /\ rpc = "run"

\* C29: set_mp_method(method, force) raises RuntimeError exactly when
\* force is false and a start method other than `method` is already set,
\* and then leaves the start method as it was; otherwise it returns with
\* `method` in effect, always so with force true; and a call with the
\* arguments of the call before it ends as that one did and changes
\* nothing.
C29_SetMpMethod ==
    [][mp_res'.n = mp_res.n + 1 =>
          LET r == mp_res'
              differs == mp_method # NoMethod /\ mp_method # r.method
          IN  /\ r.kind = "RuntimeError" <=> (~r.force /\ differs)
              /\ r.kind = "RuntimeError" => mp_method' = mp_method
              /\ r.kind # "RuntimeError" =>
                    r.kind = "return" /\ mp_method' = r.method
              /\ (mp_res.n > 0 /\ mp_res.method = r.method
                               /\ mp_res.force = r.force) =>
                    /\ r.kind = mp_res.kind
                    /\ mp_method' = mp_method]_vars

\* multiprocessing was used before any start method was set;
\* set_mp_method('spawn') then raised, twice, and the start method is
\* still the default
C29_Witness ==
    /\ mp_res = [n |-> 2, method |-> "spawn", force |-> FALSE,
                 kind |-> "RuntimeError"]
    /\ mp_method = DefaultMethod

\* C30: once the parent process is gone and its server has nothing left
\* to read, the server process has been ended.
C30_OrphanEnded ==
    (gone # "no" /\ wpc = "wait" /\ query_queue = <<>>) => _server \notin live

\* -------------------------------------- properties of the error raised
\* C25: the exception _check_for_errors raises has the type named by the
\* text before the first colon of the last line of the error record when
\* that names a built-in error type, RuntimeError otherwise, and its
\* message is errhead, a blank line and the whole record.
C25_ErrorKind ==
    [][\A c \in Callers :
          Raises(c) =>
             LET errstr == Head(error_queue)
                 named == Last(Rstrip(errstr)).tok
             IN  /\ outcome'[c].etype =
                       IF named \in Builtins \cap ErrorNames
                       THEN named ELSE "RuntimeError"
                 /\ outcome'[c].msg = <<errhead, Line("", 0)>> \o errstr]_vars

\* ------------------------------------------------- properties of halt()
\* C31: in halt(), and in the halt() that restart() and close() begin with,
\* the caller goes on to send the stop query from the is_alive() test only
\* if the server process is alive then, and the process that started the
\* server always does so then; join() never waits longer than the timeout
\* and returns only when the server process has ended or the timeout has
\* passed; terminate() is called, and the notice printed, exactly when the
\* server process is alive at the test after join(): the notice count
\* changes in no other step, and then by one.
C31_HaltOrder ==
    /\ [](\A c \in Callers :
             pc[c] = "h_join" =>
                /\ elapsed[c] <= halt_timeout
                /\ ENABLED (Halt(c) \/ JoinTick))
    /\ [][\A c \in Callers :
             /\ (pc[c] = "h_alive" /\ Acts(c)) =>
                   /\ pc'[c] = "w_put" => _server \in live
                   /\ (IsParent(c) /\ _server \in live) => pc'[c] = "w_put"
                   /\ query_queue' = query_queue
             /\ (pc[c] = "h_join" /\ Acts(c)) =>
                   /\ _server \notin live \/ elapsed[c] = halt_timeout
                   /\ UNCHANGED <<live, notices, query_queue>>
             /\ (pc[c] = "h_kill" /\ Acts(c)) =>
                   IF _server \in live
                   THEN /\ live' = live \ {_server}
                        /\ notices' = notices + 1
                   ELSE UNCHANGED <<live, notices>>]_vars
    /\ [][notices' # notices =>
             \E c \in Callers : pc[c] = "h_kill" /\ Acts(c) /\ _server \in live]_vars

\* the server did not take the stop query within the timeout: halt() waited
\* the whole timeout, ended the process and printed the notice; the stop
\* query is still on the query queue
C31_Witness ==
    /\ pc["c1"] = "h_end"
    /\ op["c1"] = "halt"
    /\ elapsed["c1"] = halt_timeout
    /\ notices = 1
    /\ live = {}
    /\ query_queue # <<>>
    /\ Last(query_queue).arg = StopArg

\* the characters of a sequence of message tuples, each with the stream
\* that wrote it, with a line break of no stream wherever a stream writes
\* into the unfinished line of another
RECURSIVE Attributed(_, _, _)
Attributed(q, nl, last) ==
    IF q = <<>> THEN <<>>
    ELSE LET m == Head(q)
         IN  (IF ~nl /\ m.stream_name # last
              THEN <<[ch |-> "\n", name |-> NoStream]>> ELSE <<>>)
             \o [i \in 1..Len(m.msg) |-> [ch |-> m.msg[i], name |-> m.stream_name]]
             \o Attributed(Tail(q), Last(m.msg) = "\n", m.stream_name)

\* in `text`, whose characters are `chars` in order, a line head stands
\* only at the start of a line, and every character other than a line end
\* stands in a line that began with the line head of the stream that wrote
\* it; cur is the stream of the line head of the current line, if any
RECURSIVE Headed(_, _, _, _)
Headed(text, chars, cur, atstart) ==
    IF text = <<>> THEN chars = <<>>
    ELSE LET t == Head(text)
         IN  IF t.kind = "head"
             THEN atstart /\ Headed(Tail(text), chars, t.name, FALSE)
             ELSE /\ chars # <<>>
                  /\ Head(chars).ch = t.ch
                  /\ IF t.ch = "\n"
                     THEN Headed(Tail(text), Tail(chars), NoStream, TRUE)
                     ELSE /\ cur # NoStream
                          /\ Head(chars).name = cur
                          /\ Headed(Tail(text), Tail(chars), cur, FALSE)

\* C32: in the text get() has returned and is building, every line that
\* holds text of a message begins with a line head, and that line head
\* names the stream that wrote the text: so a message with line ends
\* inside has its line head again after each of them, a stream that writes
\* into the unfinished line of another starts a new line with its own line
\* head, and no line head follows the last character of a message.
C32_LinesHeaded ==
    /\ Headed(Read, Attributed(SubSeq(written, 1, Taken), TRUE, NoStream),
              NoStream, TRUE)
    /\ Read # <<>> => Last(Read).kind = "char"

\* A wrote two lines in one message and B wrote into the second: the text
\* returned has three lines, each with its line head
C32_Witness ==
    /\ gpc = "idle"
    /\ Len(got) = 8
    /\ got[1] = LineHead(0, <<"A">>)
    /\ got[4] = LineHead(0, <<"A">>)
    /\ got[5] = Ch("b")
    /\ got[6] = Ch("\n")
    /\ got[7].kind = "head"
    /\ got[7].name = <<"B">>
    /\ Len(written) = 2

\* ----------------------------------------------- properties of restart()
\* C33: when restart() returns to the process that started the servers,
\* with a new server process running, the query queue that the new server
\* reads holds no stop query.
C33_NoStaleStop ==
    [][\A c \in Callers :
          (pc[c] = "h_end" /\ op[c] = "restart" /\ pc'[c] = "idle"
              /\ outcome'[c].kind = "return") =>
             \A i \in 1..Len(query_queue') : query_queue'[i].arg # StopArg]_vars

\* ---------------------------------------------- properties of waiting
\* C34: every ask() ends, returning or raising, and the lock is free then.
C34_AskEnds ==
    \A c \in Callers :
       (op[c] = "ask" /\ pc[c] # "idle") ~> (pc[c] = "idle" /\ query_lock # c)

\* C35: a caller inside write() can always take its next step: write()
\* never waits, whatever other callers do.
C35_WriteNeverWaits ==
    \A c \in Callers :
       (op[c] = "write" /\ pc[c] # "idle") =>
          ENABLED (WritePut(c) \/ CheckForErrors(c))

\* ------------------------------------------------- properties of the arm
\* C36: a method of the arm that begins with the assertion on the head
\* status gives commands to the controller and changes the arm only if the
\* status is "down" when it is called, and otherwise raises having done
\* neither; a move that returns leaves the status "down"; the status is "up"
\* after the lift, the travel and the alignment of a move.
C36_HeadDownFirst ==
    [][/\ (apc = "assert" /\ _arm_head_status # "down") =>
             /\ apc' = "idle" /\ aout'.kind = "raise" /\ sent' = 0
             /\ UNCHANGED <<_arm_head_status, _current_row_num, _end_pos>>
       /\ (aop' \in ArmGuarded /\ apc' = "assert") => sent' = 0
       /\ (aop \in ArmMoves /\ apc # "idle" /\ apc' = "idle"
              /\ aout'.kind = "return") => _arm_head_status' = "down"
       /\ (aop \in ArmMoves /\ apc' # apc /\ aout'.kind # "raise"
              /\ apc \in {"lift_arm_head_up", "move_arm_towards_begin",
                          "move_arm_towards_next_row", "align_x_axis"}) =>
             _arm_head_status' = "up"]_vars

\* a move called with the head down has made its four movements and returned
C36_Witness ==
    /\ aop = "move_arm_head_to_begin"
    /\ aout.kind = "return"
    /\ _arm_head_status = "down"
    /\ _current_row_num = 0
    /\ sent > 0

\* ------------------------------------------ properties of the corrections
\* C37: perform_and_enable_correction(corr, state) ends by returning the
\* measurement response and the enable status, having given the instrument
\* the correction measurement, the correction's state set to `state` and the
\* query of that state, in that order.
C37_PerformEnableQuery ==
    (kop.m = "perform_and_enable_correction" /\ kpc = "idle") =>
       /\ kout.kind = "return"
       /\ kout.val = [status |-> kresp, enable |-> Str(kop.state)]
       /\ klog = <<Msg("CORR?", kop.corr, "None"),
                   Msg("CORRST", kop.corr, Str(kop.state)),
                   Msg("CORRST?", kop.corr, "None")>>

====
